---- MODULE Spec2Model ----
(***************************************************************************)
(* Number normalisation pipeline of num2words_CH:                          *)
(*   detect_number_spans  (temporal adapter, pattern detectors, context    *)
(*                         validators, overlap resolver)                   *)
(*   convert_numbers      (per-kind word generation, text rewriter)        *)
(* and the persistent temporal tagger worker of py_heideltime:             *)
(*   PersistentHeidelTime (one JVM, requests over stdin, replies read from *)
(*                         a queue filled by a reader thread)              *)
(* the module state of py_heideltime.py behind heideltime():               *)
(*   _start_jvm, _get_heideltime_instance                                  *)
(* and the cardinal merge of the two dialect classes of num2words:         *)
(*   Num2Word_CH_SG.merge, Num2Word_CH_BS.merge                            *)
(* Texts are strings with Python offsets: 0-based, half-open [start,end).  *)
(***************************************************************************)
EXTENDS Integers, Sequences, FiniteSets, TLC

VARIABLES text, dialect, declTable, pc, heidel, morph, cands, spans, out, err

\* The state of a PersistentHeidelTime instance and of its process() call:
\*   stdin          the requests written to proc.stdin and not yet read by
\*                  the JVM, each the marker that ends it
\*   jvm            the marker of the request the JVM works on, 0 for none
\*   _stdout_queue  self._stdout_queue: lines <<marker of the request the
\*                  line belongs to, "out" or "end">>; an "end" line is the
\*                  one that holds the marker
\*   calls          the number of process() calls so far; the marker of the
\*                  n-th call stands for its uuid4
\*   call           where the latest call is: "none", "reading" (in the
\*                  while loop), "returned", "TimeoutError"
\*   output_lines   the lines the call has collected
\*   elapsed        time.time() - start_time in steps of 0.1 s, counted up
\*                  to one step past the timeout
VARIABLES stdin, jvm, _stdout_queue, calls, call, output_lines, elapsed

\* One step of the cardinal fold of Num2Word_CH_SG / Num2Word_CH_BS:
\*   pair    the two fragments (text, number) handed to merge(curr, next)
\*   merged  what merge returned, <<>> before the call
\* and one call of to_ordinal of these classes:
\*   ordinal_arg  the argument <<value, ending>>, the ending being what the
\*                declension sheet gives ("" for ch_bs, which has none)
\*   ordinal_res  what to_ordinal returned, "" before the call
VARIABLES pair, merged, ordinal_arg, ordinal_res

\* The module state of py_heideltime.py and the latest heideltime() call:
\*   _jvm_started          the global of that name
\*   isJVMStarted          jpype.isJVMStarted()
\*   startJVM_calls        how often jpype.startJVM was called
\*   _heideltime_instance  the global of that name: <<>> for None, else the
\*                         <<language, document type>> it was created with
\*   ht_call               the latest call: its arguments, the instance that
\*                         processed its text, and how it ended
VARIABLES _jvm_started, isJVMStarted, startJVM_calls, _heideltime_instance, ht_call

pipeline == <<text, dialect, declTable, pc, heidel, morph, cands, spans, out, err>>

PersistentHeidelTime == <<stdin, jvm, _stdout_queue, calls, call, output_lines, elapsed>>

Num2Word == <<pair, merged, ordinal_arg, ordinal_res>>

JPype == <<_jvm_started, isJVMStarted, startJVM_calls, _heideltime_instance, ht_call>>

vars == <<text, dialect, declTable, pc, heidel, morph, cands, spans, out, err,
          stdin, jvm, _stdout_queue, calls, call, output_lines, elapsed,
          pair, merged, ordinal_arg, ordinal_res,
          _jvm_started, isJVMStarted, startJVM_calls, _heideltime_instance, ht_call>>

-----------------------------------------------------------------------------
(* Python values                                                           *)

\* Python's None where an int is expected (an absent hour, minute, year ...).
None == -1

\* NumberSpan.value when the constructor's default (None) is used.
NoValue == [vt |-> "none"]

Min(a, b) == IF a < b THEN a ELSE b
Max(a, b) == IF a > b THEN a ELSE b

\* s[i] for 0 <= i < len(s); "" outside (used where the regex engine sees
\* the start or the end of the string).
Ch(s, i) == IF i >= 0 /\ i < Len(s) THEN SubSeq(s, i + 1, i + 1) ELSE ""

\* s[a:b] with Python's clamping of non-negative bounds.
Slice(s, a, b) == SubSeq(s, Max(a, 0) + 1, Min(b, Len(s)))

\* s[a:]
SliceFrom(s, a) == Slice(s, a, Len(s))

Digits == {"0", "1", "2", "3", "4", "5", "6", "7", "8", "9"}

Upper == {"A", "B", "C", "D", "E", "F", "G", "H", "I", "J", "K", "L", "M",
          "N", "O", "P", "Q", "R", "S", "T", "U", "V", "W", "X", "Y", "Z"}

Lower == {"a", "b", "c", "d", "e", "f", "g", "h", "i", "j", "k", "l", "m",
          "n", "o", "p", "q", "r", "s", "t", "u", "v", "w", "x", "y", "z"}

LowerOf == ("A" :> "a") @@ ("B" :> "b") @@ ("C" :> "c") @@ ("D" :> "d") @@
           ("E" :> "e") @@ ("F" :> "f") @@ ("G" :> "g") @@ ("H" :> "h") @@
           ("I" :> "i") @@ ("J" :> "j") @@ ("K" :> "k") @@ ("L" :> "l") @@
           ("M" :> "m") @@ ("N" :> "n") @@ ("O" :> "o") @@ ("P" :> "p") @@
           ("Q" :> "q") @@ ("R" :> "r") @@ ("S" :> "s") @@ ("T" :> "t") @@
           ("U" :> "u") @@ ("V" :> "v") @@ ("W" :> "w") @@ ("X" :> "x") @@
           ("Y" :> "y") @@ ("Z" :> "z")

IsDigit(c) == c \in Digits

\* \w of the regex engine
IsWordCh(c) == c \in Digits \cup Upper \cup Lower \cup {"_"}

\* \s of the regex engine
IsSpaceCh(c) == c \in {" ", "\t", "\n", "\r", "\f"}

\* [A-Za-z...] of place_regex
IsLetter(c) == c \in Upper \cup Lower

\* \b at offset i of s
WordBoundary(s, i) == IsWordCh(Ch(s, i - 1)) # IsWordCh(Ch(s, i))

RECURSIVE StrLower(_)
\* str.lower()
StrLower(s) ==
    IF s = "" THEN ""
    ELSE LET c == Ch(s, 0)
         IN  (IF c \in Upper THEN LowerOf[c] ELSE c) \o StrLower(SliceFrom(s, 1))

RECURSIVE SkipWhile(_, _, _)
\* The offset after the longest run, from i, of characters in class cls.
SkipWhile(s, i, cls) ==
    IF i < Len(s) /\ Ch(s, i) \in cls THEN SkipWhile(s, i + 1, cls) ELSE i

SpaceChars == {" ", "\t", "\n", "\r", "\f"}

\* \d+ from i: the offset after the digit run (i itself when there is none)
DigitRunEnd(s, i) == SkipWhile(s, i, Digits)

\* str.startswith(prefix) at offset i
StartsAt(s, i, prefix) == Slice(s, i, i + Len(prefix)) = prefix /\ i + Len(prefix) <= Len(s)

\* str.endswith(suffix)
EndsWith(s, suffix) == Len(suffix) <= Len(s) /\ SliceFrom(s, Len(s) - Len(suffix)) = suffix

RECURSIVE RStripEnd(_, _)
\* The length of s[:n] once its trailing whitespace is removed.
RStripEnd(s, n) == IF n > 0 /\ IsSpaceCh(Ch(s, n - 1)) THEN RStripEnd(s, n - 1) ELSE n

RECURSIVE ToInt(_)
\* int(s) for a string of digits
ToInt(s) ==
    IF s = "" THEN 0
    ELSE 10 * ToInt(Slice(s, 0, Len(s) - 1))
         + (CHOOSE d \in 0..9 : SubSeq("0123456789", d + 1, d + 1) = Ch(s, Len(s) - 1))

RECURSIVE ToStr(_)
\* str(n) for n >= 0
ToStr(n) ==
    IF n < 10 THEN SubSeq("0123456789", n + 1, n + 1)
    ELSE ToStr(n \div 10) \o SubSeq("0123456789", (n % 10) + 1, (n % 10) + 1)

\* str.isdigit()
IsDigitStr(s) == s # "" /\ \A i \in 0..(Len(s) - 1) : IsDigit(Ch(s, i))

\* convert_numbers_to_int
convert_numbers_to_int(number) == IF IsDigitStr(number) THEN ToInt(number) ELSE None

-----------------------------------------------------------------------------
(* Pattern detectors: regex.finditer over the text                         *)

\* A regex match object: m.start(), m.end()
Match(a, b) == [start |-> a, end |-> b]

NoMatch == -1

RECURSIVE QuoteGroupsEnd(_, _)
\* (?:[\u2019']\d{3})* from e, greedy.  The typographic apostrophe U+2019 is
\* outside the character set of the module's strings; texts use the ASCII one.
QuoteGroupsEnd(s, e) ==
    IF /\ Ch(s, e) = "'"
       /\ IsDigit(Ch(s, e + 1)) /\ IsDigit(Ch(s, e + 2)) /\ IsDigit(Ch(s, e + 3))
    THEN QuoteGroupsEnd(s, e + 4)
    ELSE e

\* PLAIN_NUMBER_RE = \d+(?:[\u2019']\d{3})*(?:[.,]\d+)?  matched at offset i:
\* the end of the match, or NoMatch.
PLAIN_NUMBER_RE(s, i) ==
    IF ~IsDigit(Ch(s, i)) THEN NoMatch
    ELSE LET e2 == QuoteGroupsEnd(s, DigitRunEnd(s, i))
         IN  IF Ch(s, e2) \in {".", ","} /\ IsDigit(Ch(s, e2 + 1))
             THEN DigitRunEnd(s, e2 + 1)
             ELSE e2

\* ORDINAL_RE = \b\d+\.(?=\s|$)  matched at offset i
ORDINAL_RE(s, i) ==
    IF ~(WordBoundary(s, i) /\ IsDigit(Ch(s, i))) THEN NoMatch
    ELSE LET e == DigitRunEnd(s, i)
         IN  IF /\ Ch(s, e) = "."
                /\ \/ IsSpaceCh(Ch(s, e + 1))
                   \/ e + 1 = Len(s)
             THEN e + 1
             ELSE NoMatch

\* ZIP_RE_RAW = \b[1-9]\d{3}\b  matched at offset i
ZIP_RE_RAW(s, i) ==
    IF /\ WordBoundary(s, i)
       /\ Ch(s, i) \in (Digits \ {"0"})
       /\ IsDigit(Ch(s, i + 1)) /\ IsDigit(Ch(s, i + 2)) /\ IsDigit(Ch(s, i + 3))
       /\ WordBoundary(s, i + 4)
    THEN i + 4
    ELSE NoMatch

\* [\s\-/.()] of PHONE_RE
PhoneSeparators == SpaceChars \cup {"-", "/", ".", "(", ")"}

RECURSIVE PhoneGroups(_, _, _)
\* (?:[\s\-/.()]*\d){0,n} from p, greedy: <<number of groups, end offset>>
PhoneGroups(s, p, n) ==
    LET d == SkipWhile(s, p, PhoneSeparators)
    IN  IF n > 0 /\ IsDigit(Ch(s, d))
        THEN LET r == PhoneGroups(s, d + 1, n - 1) IN <<r[1] + 1, r[2]>>
        ELSE <<0, p>>

\* First alternative of PHONE_RE after the prefix:
\* [1-9]\d{0,2}(?:[\s\-/.()]*\d){6,12} from q; \d{0,2} gives digits back
\* when fewer than six groups follow.
PhoneInternational(s, q) ==
    IF Ch(s, q) \notin (Digits \ {"0"}) THEN NoMatch
    ELSE LET kmax == Min(2, DigitRunEnd(s, q + 1) - (q + 1))
             ok(k) == k <= kmax /\ PhoneGroups(s, q + 1 + k, 12)[1] >= 6
         IN  IF ok(2) THEN PhoneGroups(s, q + 3, 12)[2]
             ELSE IF ok(1) THEN PhoneGroups(s, q + 2, 12)[2]
             ELSE IF ok(0) THEN PhoneGroups(s, q + 1, 12)[2]
             ELSE NoMatch

\* Second alternative of PHONE_RE: 0\d(?:[\s\-/.()]*\d){7,10}
PhoneNational(s, i) ==
    IF Ch(s, i) = "0" /\ IsDigit(Ch(s, i + 1)) /\ PhoneGroups(s, i + 2, 10)[1] >= 7
    THEN PhoneGroups(s, i + 2, 10)[2]
    ELSE NoMatch

\* PHONE_RE matched at offset i: the alternatives in order
PHONE_RE(s, i) ==
    LET intl == IF Ch(s, i) = "+" THEN PhoneInternational(s, i + 1)
                ELSE IF StartsAt(s, i, "00") THEN PhoneInternational(s, i + 2)
                ELSE NoMatch
    IN  IF intl # NoMatch THEN intl ELSE PhoneNational(s, i)

RECURSIVE finditer_PHONE_RE(_, _)
\* PHONE_RE.finditer(text) from offset pos on: the non-overlapping matches, left
\* to right
finditer_PHONE_RE(s, pos) ==
    IF pos >= Len(s) THEN <<>>
    ELSE LET e == PHONE_RE(s, pos)
         IN  IF e = NoMatch THEN finditer_PHONE_RE(s, pos + 1)
             ELSE <<Match(pos, e)>> \o finditer_PHONE_RE(s, e)

RECURSIVE finditer_ORDINAL_RE(_, _)
\* ORDINAL_RE.finditer(text) from offset pos on: the non-overlapping matches, left
\* to right
finditer_ORDINAL_RE(s, pos) ==
    IF pos >= Len(s) THEN <<>>
    ELSE LET e == ORDINAL_RE(s, pos)
         IN  IF e = NoMatch THEN finditer_ORDINAL_RE(s, pos + 1)
             ELSE <<Match(pos, e)>> \o finditer_ORDINAL_RE(s, e)

RECURSIVE finditer_ZIP_RE_RAW(_, _)
\* ZIP_RE_RAW.finditer(text) from offset pos on: the non-overlapping matches, left
\* to right
finditer_ZIP_RE_RAW(s, pos) ==
    IF pos >= Len(s) THEN <<>>
    ELSE LET e == ZIP_RE_RAW(s, pos)
         IN  IF e = NoMatch THEN finditer_ZIP_RE_RAW(s, pos + 1)
             ELSE <<Match(pos, e)>> \o finditer_ZIP_RE_RAW(s, e)

RECURSIVE finditer_PLAIN_NUMBER_RE(_, _)
\* PLAIN_NUMBER_RE.finditer(text) from offset pos on: the non-overlapping matches, left
\* to right
finditer_PLAIN_NUMBER_RE(s, pos) ==
    IF pos >= Len(s) THEN <<>>
    ELSE LET e == PLAIN_NUMBER_RE(s, pos)
         IN  IF e = NoMatch THEN finditer_PLAIN_NUMBER_RE(s, pos + 1)
             ELSE <<Match(pos, e)>> \o finditer_PLAIN_NUMBER_RE(s, e)

-----------------------------------------------------------------------------
(* Context validator: ZIP                                                  *)

\* The gazetteer, lower-cased place names of helper_data/PLZ_Ortschaften.csv
\* (a sample of its rows).
SWISS_PLZ_PLACES == {"liestal", "basel", "st. gallen", "bad ragaz"}

\* ZIP_CONTEXT_LEFT_RE.search(ctx), IGNORECASE:
\* (plz|PLZ|Postleitzahl|CH-?|CH\s*)\s*$
ZIP_CONTEXT_LEFT_RE(ctx) ==
    LET stem == StrLower(Slice(ctx, 0, RStripEnd(ctx, Len(ctx))))
    IN  \/ EndsWith(stem, "plz")
        \/ EndsWith(stem, "postleitzahl")
        \/ EndsWith(stem, "ch-")
        \/ EndsWith(stem, "ch")

\* ZIP_CONTEXT_RIGHT_RE.search(ctx), IGNORECASE: ^\s*(CH|Schweiz)\b
ZIP_CONTEXT_RIGHT_RE(ctx) ==
    LET p   == SkipWhile(ctx, 0, SpaceChars)
        low == StrLower(ctx)
    IN  \/ StartsAt(low, p, "ch") /\ WordBoundary(ctx, p + 2)
        \/ StartsAt(low, p, "schweiz") /\ WordBoundary(ctx, p + 7)

RECURSIVE PlaceHyphenParts(_, _)
\* (?:[-'][A-Za-z]+)* from e
PlaceHyphenParts(s, e) ==
    IF Ch(s, e) \in {"-", "'"} /\ IsLetter(Ch(s, e + 1))
    THEN PlaceHyphenParts(s, SkipWhile(s, e + 1, Upper \cup Lower))
    ELSE e

\* [A-Z][A-Za-z]*(?:[-'][A-Za-z]+)* at i: its end, or NoMatch
PlaceWord(s, i) ==
    IF Ch(s, i) \in Upper
    THEN PlaceHyphenParts(s, SkipWhile(s, i + 1, Upper \cup Lower))
    ELSE NoMatch

RECURSIVE PlaceMoreWords(_, _)
\* (?:\s+[A-Z][A-Za-z]*(?:[-'][A-Za-z]+)*)* from e
PlaceMoreWords(s, e) ==
    LET p == SkipWhile(s, e, SpaceChars)
    IN  IF p > e /\ PlaceWord(s, p) # NoMatch
        THEN PlaceMoreWords(s, PlaceWord(s, p))
        ELSE e

\* The "St."-like alternative of place_regex at i
PlaceSaint(s, i) ==
    IF ~StartsAt(s, i, "St") THEN NoMatch
    ELSE LET j == IF Ch(s, i + 2) = "." THEN i + 3 ELSE i + 2
             p == SkipWhile(s, j, SpaceChars)
         IN  IF PlaceWord(s, p) = NoMatch THEN NoMatch
             ELSE PlaceMoreWords(s, PlaceWord(s, p))

\* The generic multi-word alternative of place_regex at i
PlaceGeneric(s, i) ==
    IF PlaceWord(s, i) = NoMatch THEN NoMatch
    ELSE PlaceMoreWords(s, PlaceWord(s, i))

\* _has_place_after(text, end)
_has_place_after(s, end) ==
    LET right_ctx == Slice(s, end, end + 25)
        p         == SkipWhile(right_ctx, 0, SpaceChars)
        e         == IF PlaceSaint(right_ctx, p) # NoMatch
                     THEN PlaceSaint(right_ctx, p)
                     ELSE PlaceGeneric(right_ctx, p)
    IN  /\ e # NoMatch
        /\ StrLower(Slice(right_ctx, p, e)) \in SWISS_PLZ_PLACES

\* _has_zip_context(text, start, end, zip_code)
_has_zip_context(s, start, end) ==
    \/ ZIP_CONTEXT_LEFT_RE(Slice(s, Max(0, start - 20), start))
    \/ ZIP_CONTEXT_RIGHT_RE(Slice(s, end, end + 20))
    \/ _has_place_after(s, end)

-----------------------------------------------------------------------------
(* Temporal adapter: the loop over heideltime()'s result                   *)

\* NumberSpan(kind, text, start, end, value)
NumberSpan(kind, txt, start, end, value) ==
    [kind |-> kind, text |-> txt, start |-> start, end |-> end, value |-> value]

RECURSIVE IndexOf(_, _, _)
\* str.find(c, i): the first offset >= i of character c, or Len(s)
IndexOf(s, c, i) ==
    IF i >= Len(s) \/ Ch(s, i) = c THEN Min(i, Len(s)) ELSE IndexOf(s, c, i + 1)

\* value.split("T") has a second element
HasTimePart(value) == IndexOf(value, "T", 0) < Len(value)

\* value.split("T")[1]
TimePart(value) ==
    LET i == IndexOf(value, "T", 0)
    IN  Slice(value, i + 1, IndexOf(value, "T", i + 1))

\* The TIME value of the adapter:
\* {"HOUR": int(value[-5:-3]), "MINUTE": int(value[-2:])}, None for non-digits
TimeValue(value) ==
    LET v == TimePart(value)
        n == Len(v)
    IN  [vt     |-> "time",
         HOUR   |-> convert_numbers_to_int(Slice(v, Max(n - 5, 0), Max(n - 3, 0))),
         MINUTE |-> convert_numbers_to_int(Slice(v, Max(n - 2, 0), n))]

\* parse(part) of extract_date_parts
ParseDatePart(part) == IF part \in {"", "XX", "XXXX"} THEN None ELSE ToInt(part)

AllDigits(s, i, n) == \A k \in 0..(n - 1) : IsDigit(Ch(s, i + k))

\* (?P<MONTH>\d{0,2}|XX)- at j: the length of the MONTH group, or NoMatch.
\* \d{0,2} is greedy and gives digits back until "-" follows.
DateMonthLen(v, j) ==
    IF AllDigits(v, j, 2) /\ Ch(v, j + 2) = "-" THEN 2
    ELSE IF AllDigits(v, j, 1) /\ Ch(v, j + 1) = "-" THEN 1
    ELSE IF Ch(v, j) = "-" THEN 0
    ELSE IF StartsAt(v, j, "XX") /\ Ch(v, j + 2) = "-" THEN 2
    ELSE NoMatch

\* DATE_PATTERN matches at offset i of v
DatePatternAt(v, i) ==
    /\ AllDigits(v, i, 4) \/ StartsAt(v, i, "XXXX")
    /\ Ch(v, i + 4) = "-"
    /\ DateMonthLen(v, i + 5) # NoMatch

RECURSIVE DatePatternSearch(_, _)
\* DATE_PATTERN.search(v): the offset of the leftmost match from i, or NoMatch
DatePatternSearch(v, i) ==
    IF i > Len(v) THEN NoMatch
    ELSE IF DatePatternAt(v, i) THEN i
    ELSE DatePatternSearch(v, i + 1)

\* extract_date_parts(value)
extract_date_parts(value) ==
    LET v1 == IF Len(value) = 4 THEN value \o "-XX-XX" ELSE value
        v  == IF Len(v1) = 7 THEN v1 \o "-XX" ELSE v1
        i  == DatePatternSearch(v, 0)
    IN  IF i = NoMatch
        THEN [vt |-> "date", YEAR |-> None, MONTH |-> None, DAY |-> None]
        ELSE LET ml == DateMonthLen(v, i + 5)
                 d  == i + 5 + ml + 1
                 dl == Min(2, DigitRunEnd(v, d) - d)
             IN  [vt    |-> "date",
                  YEAR  |-> ParseDatePart(Slice(v, i, i + 4)),
                  MONTH |-> ParseDatePart(Slice(v, i + 5, i + 5 + ml)),
                  DAY   |-> ParseDatePart(Slice(v, d, d + dl))]

\* re.match(r"^Jahr\s+(?=\d{4}\b)", timex["text"]): m_start.end(), or 0
JahrPrefixLen(t) ==
    LET p == SkipWhile(t, 4, SpaceChars)
    IN  IF /\ StartsAt(t, 0, "Jahr") /\ p > 4
           /\ AllDigits(t, p, 4) /\ WordBoundary(t, p + 4)
        THEN p
        ELSE 0

\* re.search(r"(?<=\b\d{4})\s+Jahr$", timex["text"]):
\* len(timex["text"]) - m_end.start(), or 0
JahrSuffixLen(t) ==
    LET n == IF Len(t) > 0 /\ Ch(t, Len(t) - 1) = "\n" /\ ~EndsWith(t, "Jahr")
             THEN Len(t) - 1 ELSE Len(t)
        j == n - 4
        q == RStripEnd(t, j)
    IN  IF /\ j >= 0 /\ Slice(t, j, n) = "Jahr" /\ q < j
           /\ q >= 4 /\ AllDigits(t, q - 4, 4) /\ WordBoundary(t, q - 4)
        THEN Len(t) - q
        ELSE 0

\* The body of "for timex in timexs" passes its guards (type, span bounds)
TimexInBounds(s, timex) ==
    /\ timex.type \in {"DATE", "TIME"}
    /\ 0 <= timex.span[1] - 1
    /\ timex.span[1] - 1 < timex.span[2] - 1
    /\ timex.span[2] - 1 <= Len(s)

\* The body raises: value.split("T")[1] on a value without "T"
TimexRaises(s, timex) ==
    TimexInBounds(s, timex) /\ timex.type = "TIME" /\ ~HasTimePart(timex.value)

\* The span the body appends for one timex
TimexSpan(s, timex) ==
    LET s0 == timex.span[1] - 1
        e0 == timex.span[2] - 1
    IN  IF timex.type = "TIME"
        THEN NumberSpan("TIME", timex.text, s0, e0, TimeValue(timex.value))
        ELSE NumberSpan("DATE", timex.text,
                        s0 + JahrPrefixLen(timex.text),
                        e0 - JahrSuffixLen(timex.text),
                        extract_date_parts(timex.value))

RECURSIVE TemporalLoop(_, _, _)
\* for timex in timexs: ... spans.append(...), left by the first exception.
\* The spans appended before the exception stay in the list.
TemporalLoop(s, timexs, acc) ==
    IF timexs = <<>> THEN acc
    ELSE IF TimexRaises(s, Head(timexs)) THEN acc
    ELSE IF TimexInBounds(s, Head(timexs))
         THEN TemporalLoop(s, Tail(timexs), Append(acc, TimexSpan(s, Head(timexs))))
         ELSE TemporalLoop(s, Tail(timexs), acc)

\* The loop was left by an exception (swallowed by "except Exception: pass")
TemporalLoopRaised(s, timexs) ==
    \E k \in 1..Len(timexs) : TimexRaises(s, timexs[k])

\* The try block of detect_number_spans under a tagger outcome h:
\* h.raised when heideltime() itself raised, else h.timexs is its result.
TemporalSpans(s, h) == IF h.raised THEN <<>> ELSE TemporalLoop(s, h.timexs, <<>>)

-----------------------------------------------------------------------------
(* Context validator: ORDINAL.  A record m stands for what nlp(context)    *)
(* yields around one raw ORDINAL match:                                    *)
(*   m.raises   the call nlp(context) raises                               *)
(*   m.token    a token of the doc starts inside the digits                *)
(*   m.prev     pos_ of ordinal_token.nbor(-1), "NONE" when token.i = 0    *)
(*   m.article  Definite feature of the first DET child of the head:       *)
(*              "Def", "Ind", "other", or "none" when there is no DET      *)
(*   m.Gender, m.Case, m.Number   the lists morph.get(...) returns         *)

\* get_declension_type(adj_token)
get_declension_type(m) ==
    IF m.article = "none" THEN "stark"
    ELSE IF m.article = "Def" THEN "schwach"
    ELSE "gemischt"

\* A validator that accepts whatever the category of the preceding token
_is_ordinal_context_any_prev(m) ==
    IF ~m.token THEN [ok |-> FALSE, value |-> NoValue]
    ELSE IF m.Gender = <<>> \/ m.Case = <<>>
         THEN [ok |-> FALSE, value |-> NoValue]
         ELSE [ok    |-> TRUE,
               value |-> [vt         |-> "ordinal",
                          declension |-> StrLower(get_declension_type(m)),
                          gender     |-> StrLower(IF m.Number = <<"Plur">>
                                                  THEN "Plur" ELSE m.Gender[1]),
                          case       |-> StrLower(m.Case[1])]]

\* _is_ordinal_context(text, start, end) once nlp(context) has returned:
\* the pair (is_ordinal, type_of_ordinal)
_is_ordinal_context(m) ==
    IF ~m.token THEN [ok |-> FALSE, value |-> NoValue]
    ELSE IF m.prev \in {"DET", "ADP"}
         THEN IF m.Gender = <<>> \/ m.Case = <<>>
              THEN [ok |-> FALSE, value |-> NoValue]
              ELSE [ok    |-> TRUE,
                    value |-> [vt         |-> "ordinal",
                               declension |-> StrLower(get_declension_type(m)),
                               gender     |-> StrLower(IF m.Number = <<"Plur">>
                                                       THEN "Plur" ELSE m.Gender[1]),
                               case       |-> StrLower(m.Case[1])]]
         ELSE [ok |-> FALSE, value |-> NoValue]

-----------------------------------------------------------------------------
(* detect_number_spans: the candidates                                     *)

RECURSIVE PlainMatches(_, _, _)
\* _add_matches(text, regex, kind, out) for a kind other than ORDINAL
PlainMatches(s, ms, kind) ==
    IF ms = <<>> THEN <<>>
    ELSE <<NumberSpan(kind, Slice(s, Head(ms).start, Head(ms).end),
                      Head(ms).start, Head(ms).end, NoValue)>>
         \o PlainMatches(s, Tail(ms), kind)

RECURSIVE OrdinalMatchesValueLast(_, _, _)
\* A variant of the ORDINAL detector that appends the candidate without a
\* value before the one with the declension value
OrdinalMatchesValueLast(s, ms, morphs) ==
    IF ms = <<>> THEN <<>>
    ELSE LET m   == Head(ms)
             res == _is_ordinal_context(Head(morphs))
             sp  == NumberSpan("ORDINAL", Slice(s, m.start, m.end), m.start, m.end, NoValue)
         IN  (IF res.ok
              THEN <<sp, [sp EXCEPT !.value = res.value]>>
              ELSE <<>>)
             \o OrdinalMatchesValueLast(s, Tail(ms), Tail(morphs))

RECURSIVE OrdinalMatches(_, _, _)
\* _add_matches(text, ORDINAL_RE, "ORDINAL", out): a rejected match is
\* skipped; an accepted one is appended with its declension value and then,
\* by the statement after the if, once more without a value.
OrdinalMatches(s, ms, morphs) ==
    IF ms = <<>> THEN <<>>
    ELSE LET m   == Head(ms)
             res == _is_ordinal_context(Head(morphs))
             sp  == NumberSpan("ORDINAL", Slice(s, m.start, m.end), m.start, m.end, NoValue)
         IN  (IF res.ok
              THEN <<[sp EXCEPT !.value = res.value], sp>>
              ELSE <<>>)
             \o OrdinalMatches(s, Tail(ms), Tail(morphs))

RECURSIVE ZipMatches(_, _)
\* for m in ZIP_RE_RAW.finditer(text): if _has_zip_context(...): append
ZipMatches(s, ms) ==
    IF ms = <<>> THEN <<>>
    ELSE (IF _has_zip_context(s, Head(ms).start, Head(ms).end)
          THEN <<NumberSpan("ZIP", Slice(s, Head(ms).start, Head(ms).end),
                            Head(ms).start, Head(ms).end, NoValue)>>
          ELSE <<>>)
         \o ZipMatches(s, Tail(ms))

\* What the pattern detectors find in s before the morphological tagger is
\* asked: the PHONE, ZIP and NUMBER candidates and the raw ORDINAL matches
FindPatterns(s) ==
    [PHONE   |-> PlainMatches(s, finditer_PHONE_RE(s, 0), "PHONE"),
     ORDINAL |-> finditer_ORDINAL_RE(s, 0),
     ZIP     |-> ZipMatches(s, finditer_ZIP_RE_RAW(s, 0)),
     NUMBER  |-> PlainMatches(s, finditer_PLAIN_NUMBER_RE(s, 0), "NUMBER")]

\* The texts of the test suite (test_ch_bs_conversion.py) and texts built
\* from them for the ZIP, PHONE, DATE and TIME cases.
Texts ==
    {"Dies ist ein einfacher Text ohne Zahlen.",
     "Es gibt 42 Personen.",
     "Die Zahl ist 100.",
     "Das ist der 1. Platz.",
     "Die Antwort ist 2.",
     "Im Jahr 1999.",
     "PLZ 4410",
     "PLZ 4000.",
     "Tel: +41 23 056 789",
     "Um 14:30 Uhr",
     "Am 15. Januar im Jahr 1983"}

\* FindPatterns for each text of the model, computed once
PatternsOfTexts == [t \in Texts |-> FindPatterns(t)]

\* FindPatterns(s): looked up for a text of the model, computed for any
\* other text (the output of an earlier call)
PatternMatches(s) == IF s \in Texts THEN PatternsOfTexts[s] ELSE FindPatterns(s)

\* The candidates of the pattern detectors, in the order they are appended
AppendedInOrder(s, found, morphs) ==
    found.PHONE \o OrdinalMatches(s, found.ORDINAL, morphs)
    \o found.ZIP \o found.NUMBER

\* The calls of the pattern detectors in detect_number_spans
PatternSpans(s, morphs) == AppendedInOrder(s, PatternMatches(s), morphs)

\* nlp(context) raises for one of the raw ORDINAL matches: the exception
\* leaves _is_ordinal_context, _add_matches and detect_number_spans.
MorphRaises(morphs) == \E k \in 1..Len(morphs) : morphs[k].raises

\* The list "spans" when the overlap resolution starts; found is what the
\* pattern detectors find in s
Candidates(s, h, found, morphs) ==
    TemporalSpans(s, h) \o AppendedInOrder(s, found, morphs)

-----------------------------------------------------------------------------
(* Overlap resolver                                                        *)

\* KIND_PRIORITY.get(kind, 99)
KIND_PRIORITY(kind) ==
    CASE kind \in {"DATE", "TIME"} -> 0
      [] kind = "PHONE"     -> 1
      [] kind = "ZIP"       -> 2
      [] kind = "ORDINAL"   -> 3
      [] kind = "YEAR"      -> 4
      [] kind = "MONEY"     -> 5
      [] kind = "CAR_PLATE" -> 6
      [] kind = "MODEL"     -> 7
      [] kind = "NUMBER"    -> 8
      [] OTHER              -> 99

\* A sort key without the priority: (s.start, -(s.end - s.start))
PriorityKeyLessNoKind(a, b) ==
    \/ a.start < b.start
    \/ a.start = b.start /\ -(a.end - a.start) < -(b.end - b.start)

\* key=lambda s: (KIND_PRIORITY.get(s.kind, 99), s.start, -(s.end - s.start))
PriorityKeyLess(a, b) ==
    LET pa == KIND_PRIORITY(a.kind)
        pb == KIND_PRIORITY(b.kind)
    IN  \/ pa < pb
        \/ pa = pb /\ a.start < b.start
        \/ pa = pb /\ a.start = b.start /\ -(a.end - a.start) < -(b.end - b.start)

\* key=lambda s: (s.start, -(s.end - s.start)) of the older resolver
PositionKeyLess(a, b) ==
    \/ a.start < b.start
    \/ a.start = b.start /\ -(a.end - a.start) < -(b.end - b.start)

\* A sort by start without reverse=True: the leftmost span first
StartAscLess(a, b) == a.start < b.start

\* key=lambda s: s.start, reverse=True
StartDescLess(a, b) == a.start > b.start

\* a sorts before b under the key of that name
SortKeyLess(key, a, b) ==
    CASE key = "priority"   -> PriorityKeyLess(a, b)
      [] key = "position"   -> PositionKeyLess(a, b)
      [] key = "start_desc" -> StartDescLess(a, b)

RECURSIVE InsertStable(_, _, _)
\* x put behind every element that does not sort after it
InsertStable(key, sorted, x) ==
    IF sorted = <<>> THEN <<x>>
    ELSE IF SortKeyLess(key, x, Head(sorted)) THEN <<x>> \o sorted
    ELSE <<Head(sorted)>> \o InsertStable(key, Tail(sorted), x)

RECURSIVE ListSort(_, _, _)
\* list.sort(key=...): stable, equal keys keep their order
ListSort(key, seq, acc) ==
    IF seq = <<>> THEN acc
    ELSE ListSort(key, Tail(seq), InsertStable(key, acc, Head(seq)))

RECURSIVE FilterSpansNestedOnly(_, _)
\* A filter that skips a span only when it lies inside a kept span
FilterSpansNestedOnly(sorted, filtered) ==
    IF sorted = <<>> THEN filtered
    ELSE LET span == Head(sorted)
             kept == {filtered[k] : k \in 1..Len(filtered)}
         IN  IF \E f \in kept : span.start >= f.start /\ span.end <= f.end
             THEN FilterSpansNestedOnly(Tail(sorted), filtered)
             ELSE FilterSpansNestedOnly(Tail(sorted), Append(filtered, span))

RECURSIVE FilterSpans(_, _)
\* for span in spans: skip it when it lies inside, or overlaps, a kept span
FilterSpans(sorted, filtered) ==
    IF sorted = <<>> THEN filtered
    ELSE LET span == Head(sorted)
             kept == {filtered[k] : k \in 1..Len(filtered)}
         IN  IF \E f \in kept : span.start >= f.start /\ span.end <= f.end
             THEN FilterSpans(Tail(sorted), filtered)
             ELSE IF \E f \in kept : ~(span.end <= f.start \/ span.start >= f.end)
             THEN FilterSpans(Tail(sorted), filtered)
             ELSE FilterSpans(Tail(sorted), Append(filtered, span))

\* Overlap resolution with priority (num2words/detect_convert_ch_numbers.py)
ResolveByPriority(candidates) ==
    FilterSpans(ListSort("priority", candidates, <<>>), <<>>)

\* Overlap resolution by position and length (detect_number_spans.py)
ResolveByPosition(candidates) ==
    FilterSpans(ListSort("position", candidates, <<>>), <<>>)

\* The end of detect_number_spans: the list before the sort, and the
\* spans returned
Resolved(candidates) ==
    [raised |-> FALSE, cands |-> candidates, spans |-> ResolveByPriority(candidates)]

\* detect_number_spans(text): raised when the exception of nlp(context)
\* leaves it, else the spans it returns
detect_number_spans(s, h, found, morphs) ==
    IF MorphRaises(morphs)
    THEN [raised |-> TRUE, cands |-> <<>>, spans |-> <<>>]
    ELSE Resolved(Candidates(s, h, found, morphs))

-----------------------------------------------------------------------------
(* Word generator.  num2words(...) of num2words_CH is kept as a term that  *)
(* names the conversion and its argument, the digits of the argument by    *)
(* their names: "<cardinal VierEins>" for 41, "<hours Drei>",              *)
(* "<ordinal Zwei schwach/masc/nom>".                                      *)

\* A generated phrase, or the exception that replaced it
Phrase(number) == [raises |-> FALSE, number |-> number]
Raise(cause)   == [raises |-> TRUE, number |-> cause]

\* The names that stand for the digits inside a term: the phrases of
\* num2words are words and hold no digit
DigitName ==
    ("0" :> "Null") @@ ("1" :> "Eins") @@ ("2" :> "Zwei") @@ ("3" :> "Drei") @@
    ("4" :> "Vier") @@ ("5" :> "Fuenf") @@ ("6" :> "Sechs") @@ ("7" :> "Sieben") @@
    ("8" :> "Acht") @@ ("9" :> "Neun")

RECURSIVE Spelled(_)
\* s with the name of each digit in the digit's place
Spelled(s) ==
    IF s = "" THEN ""
    ELSE (IF IsDigit(Ch(s, 0)) THEN DigitName[Ch(s, 0)] ELSE Ch(s, 0))
         \o Spelled(SliceFrom(s, 1))

\* The argument as num2words reads it: a digit string is a number
NumberArg(number) ==
    IF IsDigitStr(number) THEN Spelled(ToStr(ToInt(number))) ELSE Spelled(number)

\* num2words(number, lang=dialect, to=to)
Word(to, number) == "<" \o to \o " " \o NumberArg(number) \o ">"

\* num2words(number, lang=dialect)
Cardinal(number) == Word("cardinal", number)

\* The row of the declension table a value asks for
DeclensionKey(value) == <<value.declension, value.gender, value.case>>

\* Num2Word_CH_SG.to_ordinal(value, declension): the mask selects the rows
\* of ordinal_declension, and .values[0] raises IndexError when there is
\* none.  Num2Word_CH_BS.to_ordinal(value) appends a fixed suffix.
to_ordinal(d, table, number, declension) ==
    IF d = "ch_sg"
    THEN IF declension.vt # "ordinal" THEN Raise("TypeError")
         ELSE IF DeclensionKey(declension) \notin table THEN Raise("IndexError")
         ELSE Phrase("<ordinal " \o NumberArg(number) \o " "
                     \o declension.declension \o "/" \o declension.gender
                     \o "/" \o declension.case \o ">")
    ELSE Phrase("<ordinal " \o NumberArg(number) \o ">")

RECURSIVE Repeat(_, _, _)
\* sep.join([word for _ in range(n)])
Repeat(word, sep, n) ==
    IF n = 0 THEN ""
    ELSE IF n = 1 THEN word
    ELSE word \o sep \o Repeat(word, sep, n - 1)

\* A generator that takes the digit string as it is
LeadingZerosIgnored(number_str) == 0

\* len(number_str) - len(number_str.lstrip('0'))
LeadingZeros(number_str) == SkipWhile(number_str, 0, {"0"})

\* if span.kind == "NUMBER"
GenNumber(number) ==
    LET leading_zeros == LeadingZeros(number)
        zero_part     == Repeat(Cardinal("0"), " ", leading_zeros)
    IN  IF leading_zeros > 0
        THEN IF leading_zeros = Len(number) THEN zero_part
             ELSE zero_part \o " " \o Cardinal(SliceFrom(number, leading_zeros))
        ELSE Cardinal(number)

\* elif span.kind == "ZIP"
GenZip(number) ==
    IF Len(number) = 4
    THEN IF Ch(number, 1) = "000" THEN Cardinal(number)
         ELSE IF Ch(number, 2) = "0"
         THEN Cardinal(Slice(number, 0, 2)) \o " " \o Cardinal("0")
              \o " " \o Cardinal(Ch(number, 3))
         ELSE Cardinal(Slice(number, 0, 2)) \o " " \o Cardinal(SliceFrom(number, 2))
    ELSE number

RECURSIVE StrRemove(_, _)
\* str.replace(c, "")
StrRemove(s, c) ==
    IF s = "" THEN ""
    ELSE (IF Ch(s, 0) = c THEN "" ELSE Ch(s, 0)) \o StrRemove(SliceFrom(s, 1), c)

RECURSIVE SpellDigits(_)
\* for digit in ...: number += " " + num2words(digit, lang=dialect)
SpellDigits(s) ==
    IF s = "" THEN ""
    ELSE " " \o Cardinal(Ch(s, 0)) \o SpellDigits(SliceFrom(s, 1))

\* elif span.kind == "PHONE"
GenPhone(number) ==
    LET cleaned_number == StrRemove(number, " ")
    IN  (IF StartsAt(cleaned_number, 0, "+") THEN "plus" ELSE "")
        \o SpellDigits(SliceFrom(cleaned_number, SkipWhile(cleaned_number, 0, {"+"})))

\* The keys of self.hours and of self.minutes (Num2Word_CH_SG.setup)
hours == 1..12
minutes == {15, 25, 30, 35, 45}

\* to_hours(val): the name of the hour, None (a raised TypeError at the
\* next concatenation) when val is not a key of self.hours
to_hours(val) ==
    IF val \in hours THEN Phrase(Word("hours", ToStr(val))) ELSE Raise("TypeError")

\* to_minutes(val): the idiom of the table, else the cardinal of the
\* minutes past or to the hour; None for val >= 60
to_minutes(val) ==
    IF val \in minutes THEN Phrase(Word("minutes", ToStr(val)))
    ELSE IF val < 30 THEN Phrase(Cardinal(ToStr(val)) \o "ab")
    ELSE IF val > 30 /\ val < 60 THEN Phrase(Cardinal(ToStr(60 - val)) \o "vor")
    ELSE Raise("TypeError")

\* The hour that is looked up: hours += 1 for minutes 25 and from 30 on,
\* then hours -= 12 above 12
TimeHours(value) ==
    LET hours1 == IF value.MINUTE = 25 \/ value.MINUTE >= 30
                  THEN value.HOUR + 1 ELSE value.HOUR
    IN  IF hours1 > 12 THEN hours1 - 12 ELSE hours1

\* elif span.kind == "TIME": comparing or adding to None raises TypeError,
\* and so does joining a phrase with the None of a lookup that found no
\* entry; span.value has no "SECOND", so the seconds are never rendered.
GenTime(value) ==
    IF value.MINUTE = None \/ value.HOUR = None THEN Raise("TypeError")
    ELSE LET hour   == to_hours(TimeHours(value))
             minute == to_minutes(value.MINUTE)
         IN  IF hour.raises THEN hour
             ELSE IF value.MINUTE > 0
             THEN IF minute.raises THEN minute
                  ELSE Phrase(minute.number \o " " \o hour.number)
             ELSE hour

RECURSIVE JoinPartsGlued(_)
\* A join that puts nothing between the parts
JoinPartsGlued(parts) ==
    IF parts = <<>> THEN "" ELSE Head(parts) \o JoinPartsGlued(Tail(parts))

\* " ".join(date_parts)
JoinParts(parts) ==
    IF parts = <<>> THEN ""
    ELSE IF Len(parts) = 1 THEN parts[1]
    ELSE IF Len(parts) = 2 THEN parts[1] \o " " \o parts[2]
    ELSE parts[1] \o " " \o parts[2] \o " " \o parts[3]

\* The declension the DATE branch passes for the day
DateDeclension ==
    [vt |-> "ordinal", declension |-> "gemischt", gender |-> "masc", case |-> "nom"]

\* elif span.kind == "DATE"
GenDate(d, table, value) ==
    LET day   == IF value.DAY # None
                 THEN to_ordinal(d, table, ToStr(value.DAY), DateDeclension)
                 ELSE Phrase("")
        year  == ToStr(value.YEAR)
        parts == (IF value.DAY # None THEN <<day.number>> ELSE <<>>)
                 \o (IF value.MONTH # None
                     THEN <<Word("month_dates", ToStr(value.MONTH))>> ELSE <<>>)
                 \o (IF value.YEAR # None
                     THEN IF Len(year) = 4 /\ value.YEAR <= 1999
                          THEN <<Cardinal(Slice(year, 0, 2)) \o " "
                                 \o Cardinal(SliceFrom(year, 2))>>
                          ELSE <<Cardinal(year)>>
                     ELSE <<>>)
    IN  IF day.raises THEN day ELSE Phrase(JoinParts(parts))

\* The body of "for span in spans" up to the splice: span's replacement
Generate(d, table, span) ==
    CASE span.kind = "NUMBER"  -> Phrase(GenNumber(span.text))
      [] span.kind = "ZIP"     -> Phrase(GenZip(span.text))
      [] span.kind = "PHONE"   -> Phrase(GenPhone(span.text))
      [] span.kind = "ORDINAL" ->
            to_ordinal(d, table, Slice(span.text, 0, Len(span.text) - 1), span.value)
      [] span.kind = "TIME"    -> GenTime(span.value)
      [] span.kind = "DATE"    -> GenDate(d, table, span.value)
      [] OTHER                 -> Phrase(span.text)

-----------------------------------------------------------------------------
(* Text rewriter                                                           *)

\* out = out[:span.start] + number + out[span.end:]
Splice(o, span, number) ==
    Slice(o, 0, span.start) \o number \o SliceFrom(o, span.end)

RECURSIVE RewriteLoop(_, _, _, _)
\* for span in spans: ...; the first exception leaves convert_numbers
RewriteLoop(d, table, ordered, o) ==
    IF ordered = <<>> THEN Phrase(o)
    ELSE LET g == Generate(d, table, Head(ordered))
         IN  IF g.raises THEN g
             ELSE RewriteLoop(d, table, Tail(ordered), Splice(o, Head(ordered), g.number))

\* The sort and the loop of convert_numbers over the spans
\* detect_number_spans returned
Rewrite(d, table, s, accepted) ==
    RewriteLoop(d, table, ListSort("start_desc", accepted, <<>>), s)

\* A rewriter that ends what it returns with a line break
ReturnedWithLineBreak(detected, r) ==
    [raised |-> r.raises,
     cands  |-> detected.cands,
     spans  |-> detected.spans,
     out    |-> IF r.raises THEN "" ELSE r.number \o "\n",
     err    |-> IF r.raises THEN r.number ELSE ""]

\* How convert_numbers ends when the loop ended with r
Returned(detected, r) ==
    [raised |-> r.raises,
     cands  |-> detected.cands,
     spans  |-> detected.spans,
     out    |-> IF r.raises THEN "" ELSE r.number,
     err    |-> IF r.raises THEN r.number ELSE ""]

\* convert_numbers after its call of detect_number_spans
ConvertDetected(d, table, s, detected) ==
    IF detected.raised
    THEN [raised |-> TRUE, cands |-> <<>>, spans |-> <<>>, out |-> "", err |-> "Exception"]
    ELSE Returned(detected, Rewrite(d, table, s, detected.spans))

\* convert_numbers(text, dialect)
convert_numbers(d, table, s, h, found, morphs) ==
    ConvertDetected(d, table, s, detect_number_spans(s, h, found, morphs))

-----------------------------------------------------------------------------
(* Inputs and the external collaborators                                   *)

Dialects == {"ch_bs", "ch_sg"}

\* The rows (Deklination, Genus, Kasus) of the sheet Ordinal_deklination
FullTable ==
    {<<d, g, c>> : d \in {"schwach", "gemischt", "stark"},
                   g \in {"masc", "fem", "neut", "plur"},
                   c \in {"nom", "acc", "dat", "gen"}}

\* The sheet as setup() may find it: complete, or with a row missing
Tables ==
    {FullTable,
     FullTable \ {<<"stark", "plur", "dat">>},
     FullTable \ {<<"gemischt", "masc", "nom">>}}

\* What nlp(context) can yield for one raw ORDINAL match
MorphMenu ==
    LET det == [raises |-> FALSE, token |-> TRUE, prev |-> "DET", article |-> "Def",
                Gender |-> <<"Masc">>, Case |-> <<"Nom">>, Number |-> <<"Sing">>]
    IN  {[det EXCEPT !.raises = TRUE],
         [det EXCEPT !.token = FALSE],
         [det EXCEPT !.prev = "VERB"],
         det,
         [det EXCEPT !.prev = "ADP", !.article = "none", !.Gender = <<"Fem">>,
                     !.Case = <<"Dat">>, !.Number = <<"Plur">>],
         [det EXCEPT !.Gender = <<>>, !.Case = <<>>, !.Number = <<>>]}

\* One outcome of nlp(context) per raw ORDINAL match of the text
MorphOutcomes(found) == [1..Len(found.ORDINAL) -> MorphMenu]

\* The largest number of expressions the temporal tagger returns
MaxTimex == 2

\* (type, value) of a TIMEX3 tag: a full date, a year, a date without
\* year-month-day fields, a time of day, a TIME value without the "T"
\* separator, and a type the adapter skips.
TimexValues ==
    {<<"DATE", "2024-01-15">>, <<"DATE", "1983">>, <<"DATE", "PRESENT_REF">>,
     <<"TIME", "2024-01-15T14:30">>, <<"TIME", "2024-01-15">>,
     <<"DURATION", "P2D">>}

\* The offsets where a whitespace-separated word of s starts
WordStarts(s) ==
    {i \in 0..(Len(s) - 1) : ~IsSpaceCh(Ch(s, i)) /\ (i = 0 \/ IsSpaceCh(Ch(s, i - 1)))}

RECURSIVE SkipWord(_, _)
\* The offset of the first whitespace from i on, or len(s)
SkipWord(s, i) ==
    IF i < Len(s) /\ ~IsSpaceCh(Ch(s, i)) THEN SkipWord(s, i + 1) ELSE i

\* The end of the word that starts at i, without its trailing punctuation
WordEnd(s, i) ==
    LET e == SkipWord(s, i + 1)
    IN  IF Ch(s, e - 1) \in {".", ","} /\ e - 1 > i THEN e - 1 ELSE e

\* The stretches of s the tagger may report: one word or two neighbouring
\* words with a digit in them, as [start, end), and one stretch that lies
\* outside the text.
TimexRegions(s) ==
    LET ws    == WordStarts(s)
        pairs == {p \in ws \X ws :
                     /\ p[1] <= p[2]
                     /\ Cardinality({w \in ws : p[1] <= w /\ w <= p[2]}) <= 2}
    IN  {r \in {<<p[1], WordEnd(s, p[2])>> : p \in pairs} :
            \E k \in r[1]..(r[2] - 1) : IsDigit(Ch(s, k))}
        \cup {<<Len(s), Len(s) + 2>>}

\* A TIMEX3 as _get_timexs returns it: the span counts the line break
\* that follows <TimeML>, so it is the text offset plus one.
Timex(s, r, tv) ==
    [type |-> tv[1], value |-> tv[2], text |-> Slice(s, r[1], r[2]),
     span |-> <<r[1] + 1, r[2] + 1>>]

\* _get_timexs lists the expressions in text order, one after the other
InTextOrder(timexs) ==
    \A k \in 1..(Len(timexs) - 1) : timexs[k].span[2] <= timexs[k + 1].span[1]

\* What heideltime(text, ...) can do: raise, or return a list of TIMEX3
HeidelOutcomes(s) ==
    {[raised |-> TRUE, timexs |-> <<>>]} \cup
    {[raised |-> FALSE, timexs |-> t] :
        t \in {q \in UNION {[1..n -> {Timex(s, r, tv) : r \in TimexRegions(s),
                                                       tv \in TimexValues}]
                            : n \in 0..MaxTimex} : InTextOrder(q)}}

-----------------------------------------------------------------------------
(* No PersistentHeidelTime instance is in use: the pipeline calls          *)
(* heideltime() of py_heideltime.py                                        *)

NoWorker ==
    /\ stdin = <<>>
    /\ jvm = 0
    /\ _stdout_queue = <<>>
    /\ calls = 0
    /\ call = "none"
    /\ output_lines = {}
    /\ elapsed = 0

\* py_heideltime.py as imported: no JVM, no instance, no call made
NoTagger ==
    /\ _jvm_started = FALSE
    /\ isJVMStarted = FALSE
    /\ startJVM_calls = 0
    /\ _heideltime_instance = <<>>
    /\ ht_call = [language |-> "", document_type |-> "", instance |-> <<>>,
                  outcome |-> "none"]

\* No cardinal merge is looked at
NoMerge ==
    /\ pair = <<>>
    /\ merged = <<>>
    /\ ordinal_arg = <<>>
    /\ ordinal_res = ""

-----------------------------------------------------------------------------
(* The pipeline: one call of detect_number_spans or of convert_numbers     *)

\* No declension sheet: before setup() of the SG converter, and for BS
NoTable == {}

Init ==
    /\ text \in Texts
    /\ dialect = ""
    /\ declTable = NoTable
    /\ pc = "ready"
    /\ heidel = [raised |-> FALSE, timexs |-> <<>>]
    /\ morph = <<>>
    /\ cands = <<>>
    /\ spans = <<>>
    /\ out = ""
    /\ err = ""
    /\ NoWorker
    /\ NoTagger
    /\ NoMerge

\* detect_number_spans(text): h is what heideltime() does in this call and
\* m what nlp(context) does for each raw ORDINAL match.
DetectNumberSpans ==
    /\ pc = "ready"
    /\ \E found \in {PatternMatches(text)} :
       \E h \in HeidelOutcomes(text), m \in MorphOutcomes(found) :
       \E res \in {detect_number_spans(text, h, found, m)} :
          /\ heidel' = h
          /\ morph' = m
          /\ cands' = res.cands
          /\ spans' = res.spans
          /\ err' = IF res.raised THEN "Exception" ELSE ""
          /\ pc' = IF res.raised THEN "detect_raised" ELSE "detected"
    /\ UNCHANGED <<text, dialect, declTable, out>>
    /\ UNCHANGED PersistentHeidelTime
    /\ UNCHANGED Num2Word
    /\ UNCHANGED JPype

\* convert_numbers(text, dialect): the call of detect_number_spans and the
\* loop over its spans; table is the declension sheet the converter loaded.
ConvertNumbers ==
    /\ pc = "ready"
    /\ \E found \in {PatternMatches(text)} :
       \E d \in Dialects, h \in HeidelOutcomes(text), m \in MorphOutcomes(found) :
       \E table \in (IF d = "ch_sg" THEN Tables ELSE {NoTable}) :
       \E res \in {convert_numbers(d, table, text, h, found, m)} :
          /\ dialect' = d
          /\ declTable' = table
          /\ heidel' = h
          /\ morph' = m
          /\ cands' = res.cands
          /\ spans' = res.spans
          /\ out' = res.out
          /\ err' = res.err
          /\ pc' = IF res.raised THEN "convert_raised" ELSE "converted"
    /\ UNCHANGED text
    /\ UNCHANGED PersistentHeidelTime
    /\ UNCHANGED Num2Word
    /\ UNCHANGED JPype

Next == DetectNumberSpans \/ ConvertNumbers

Spec == Init /\ [][Next]_vars

-----------------------------------------------------------------------------
(* Re-application: convert_numbers called on what convert_numbers returned *)

\* The caller hands the text the first call returned to a second call;
\* the spans and tagger results of the first call are gone with it.
Reapply ==
    /\ pc = "converted"
    /\ text' = out
    /\ heidel' = [raised |-> FALSE, timexs |-> <<>>]
    /\ morph' = <<>>
    /\ cands' = <<>>
    /\ spans' = <<>>
    /\ out' = ""
    /\ err' = ""
    /\ pc' = "again"
    /\ UNCHANGED <<dialect, declTable>>
    /\ UNCHANGED PersistentHeidelTime
    /\ UNCHANGED Num2Word
    /\ UNCHANGED JPype

\* convert_numbers(text, dialect) on the returned text, with the same
\* dialect and declension sheet; h and m are what the taggers do in this
\* second call.
ConvertAgain ==
    /\ pc = "again"
    /\ \E found \in {PatternMatches(text)} :
       \E h \in HeidelOutcomes(text), m \in MorphOutcomes(found) :
       \E res \in {convert_numbers(dialect, declTable, text, h, found, m)} :
          /\ heidel' = h
          /\ morph' = m
          /\ cands' = res.cands
          /\ spans' = res.spans
          /\ out' = res.out
          /\ err' = res.err
          /\ pc' = IF res.raised THEN "convert_again_raised" ELSE "converted_again"
    /\ UNCHANGED <<text, dialect, declTable>>
    /\ UNCHANGED PersistentHeidelTime
    /\ UNCHANGED Num2Word
    /\ UNCHANGED JPype

NextTwice == ConvertNumbers \/ Reapply \/ ConvertAgain

SpecTwice == Init /\ [][NextTwice]_vars

-----------------------------------------------------------------------------
(* The overlap resolvers on candidate lists of every shape                 *)

\* The longest candidate list, and the last text offset a candidate ends at
MaxCands == 3

\* Kinds of three priority levels, two of them of equal priority
ResolveKinds == {"DATE", "TIME", "PHONE", "NUMBER"}

InitResolve ==
    /\ text = ""
    /\ dialect = ""
    /\ declTable = NoTable
    /\ pc = "collect"
    /\ heidel = [raised |-> FALSE, timexs |-> <<>>]
    /\ morph = <<>>
    /\ cands = <<>>
    /\ spans = <<>>
    /\ out = ""
    /\ err = ""
    /\ NoWorker
    /\ NoTagger
    /\ NoMerge

\* The place of a kind's detector in the order the detectors run in: the
\* temporal adapter, then PHONE, ORDINAL, ZIP and NUMBER
DetectorOrder(kind) ==
    CASE kind \in {"DATE", "TIME"} -> 0
      [] kind = "PHONE"   -> 1
      [] kind = "ORDINAL" -> 2
      [] kind = "ZIP"     -> 3
      [] kind = "NUMBER"  -> 4

\* spans.append(NumberSpan(...)) by one of the detectors, which run one
\* after the other
AddCandidate ==
    /\ pc = "collect"
    /\ Len(cands) < MaxCands
    /\ \E k \in ResolveKinds, a \in 0..MaxCands, b \in 0..MaxCands :
          /\ a < b
          /\ cands # <<>> => DetectorOrder(cands[Len(cands)].kind) <= DetectorOrder(k)
          /\ cands' = Append(cands, NumberSpan(k, "", a, b, NoValue))
    /\ UNCHANGED <<text, dialect, declTable, pc, heidel, morph, spans, out, err>>
    /\ UNCHANGED PersistentHeidelTime
    /\ UNCHANGED Num2Word
    /\ UNCHANGED JPype

\* The sort and filter at the end of num2words/detect_convert_ch_numbers.py
ResolvePriority ==
    /\ pc = "collect"
    /\ spans' = ResolveByPriority(cands)
    /\ pc' = "resolved_priority"
    /\ UNCHANGED <<text, dialect, declTable, heidel, morph, cands, out, err>>
    /\ UNCHANGED PersistentHeidelTime
    /\ UNCHANGED Num2Word
    /\ UNCHANGED JPype

\* The sort and filter at the end of detect_number_spans.py
ResolvePosition ==
    /\ pc = "collect"
    /\ spans' = ResolveByPosition(cands)
    /\ pc' = "resolved_position"
    /\ UNCHANGED <<text, dialect, declTable, heidel, morph, cands, out, err>>
    /\ UNCHANGED PersistentHeidelTime
    /\ UNCHANGED Num2Word
    /\ UNCHANGED JPype

NextResolve == AddCandidate \/ ResolvePriority \/ ResolvePosition

SpecResolve == InitResolve /\ [][NextResolve]_vars

-----------------------------------------------------------------------------
(* The word generator on one accepted span                                 *)

\* Every string ZIP_RE_RAW matches: four digits, the first one not 0
ZipCodes == {ToStr(n) : n \in 1000..9999}

\* The longest digit string a NUMBER span is generated for
MaxDigits == 3

RECURSIVE DigitStringsOf(_)
\* The strings of n digits
DigitStringsOf(n) ==
    IF n = 0 THEN {""} ELSE {d \o s : d \in Digits, s \in DigitStringsOf(n - 1)}

\* The digit strings PLAIN_NUMBER_RE matches, leading zeros included
DigitStrings == UNION {DigitStringsOf(n) : n \in 1..MaxDigits}

\* Phone numbers as they are written: with "+", with the 00 prefix, with a
\* trunk code, and with the separators [\s\-/.()] of PHONE_RE.  Only the
\* strings PHONE_RE matches from their first to their last character are
\* PHONE spans.
PhoneTexts ==
    {s \in {"+41 23 056 789", "+41230567", "0041 23 056 789", "044 123 45 67",
            "0441234567", "+41-23-056-789", "044/123.45.67", "+41 (23) 056 789",
            "+4123", "12 34"} :
        PHONE_RE(s, 0) = Len(s)}

\* The span a pattern detector appends for a text it matches as a whole
PatternSpan(kind, s) == NumberSpan(kind, s, 0, Len(s), NoValue)

\* n in 0..99 written with two digits
TwoDigits(n) == SliceFrom(ToStr(100 + n), 1)

\* Normalized values of TIME expressions: every clock time HH:MM, and
\* times of day with seconds
ClockTimes ==
    {"2024-01-15T" \o TwoDigits(h) \o ":" \o TwoDigits(m) : h \in 0..23, m \in 0..59}

ClockTimesWithSeconds ==
    {"2024-01-15T14:30:45", "2024-01-15T09:05:00", "2024-01-15T00:00:07"}

\* Normalized values of DATE expressions: year, year-month and
\* year-month-day, with the placeholders XXXX and XX for unknown fields
DateValues ==
    LET years  == {"0950", "1000", "1583", "1999", "2000", "2024", "XXXX"}
        months == {"01", "06", "12", "XX"}
        days   == {"01", "15", "31", "XX"}
    IN  years
        \cup {y \o "-" \o m : y \in years, m \in months}
        \cup {y \o "-" \o m \o "-" \o d : y \in years, m \in months, d \in days}

\* The expression heideltime() returns for a surface text that is the
\* whole input
WholeTextTimex(type, surface, value) ==
    Timex(surface, <<0, Len(surface)>>, <<type, value>>)

\* The inputs of the generator: the text, and what the temporal tagger
\* reports for it
GenInputs ==
    {[text |-> z, kind |-> "ZIP", timexs |-> <<>>] : z \in ZipCodes}
    \cup {[text |-> n, kind |-> "NUMBER", timexs |-> <<>>] : n \in DigitStrings}
    \cup {[text |-> p, kind |-> "PHONE", timexs |-> <<>>] : p \in PhoneTexts}
    \cup {[text |-> SliceFrom(v, 11), kind |-> "TIME",
           timexs |-> <<WholeTextTimex("TIME", SliceFrom(v, 11), v)>>] :
             v \in ClockTimes \cup ClockTimesWithSeconds}
    \cup {[text |-> v, kind |-> "DATE",
           timexs |-> <<WholeTextTimex("DATE", v, v)>>] : v \in DateValues}

\* The accepted span of a generator input: the span of the temporal
\* adapter for a DATE or TIME, else the span of the pattern detector
GenSpans(g) ==
    IF g.timexs # <<>> THEN TemporalLoop(g.text, g.timexs, <<>>)
    ELSE <<PatternSpan(g.kind, g.text)>>

InitGen ==
    /\ \E g \in GenInputs :
          /\ text = g.text
          /\ heidel = [raised |-> FALSE, timexs |-> g.timexs]
          /\ cands = GenSpans(g)
          /\ spans = GenSpans(g)
    /\ dialect \in Dialects
    /\ declTable = (IF dialect = "ch_sg" THEN FullTable ELSE NoTable)
    /\ pc = "generate"
    /\ morph = <<>>
    /\ out = ""
    /\ err = ""
    /\ NoWorker
    /\ NoTagger
    /\ NoMerge

\* One pass of the loop body of convert_numbers over the only span
GenerateSpan ==
    /\ pc = "generate"
    /\ \E r \in {RewriteLoop(dialect, declTable, spans, text)} :
          /\ out' = IF r.raises THEN "" ELSE r.number
          /\ err' = IF r.raises THEN r.number ELSE ""
          /\ pc' = IF r.raises THEN "generate_raised" ELSE "generated"
    /\ UNCHANGED <<text, dialect, declTable, heidel, morph, cands, spans>>
    /\ UNCHANGED PersistentHeidelTime
    /\ UNCHANGED Num2Word
    /\ UNCHANGED JPype

NextGen == GenerateSpan

SpecGen == InitGen /\ [][NextGen]_vars

-----------------------------------------------------------------------------
(* PersistentHeidelTime: process() calls made one at a time on one         *)
(* instance, the JVM behind the pipes, and the reader thread               *)

\* The number of process() calls of a run
MaxCalls == 2

\* The number of lines self._stdout_queue holds at most
MaxQueue == 3

\* The timeout of process(text, timeout), in waits of 0.1 s
Timeout == 2

\* A line of the JVM's output: one of the TimeML lines of a request, or the
\* line that holds the request's marker
OutputLine(marker) == <<marker, "out">>
MarkerLine(marker) == <<marker, "end">>

\* The instance after __init__: the JVM started, nothing written or read
InitWorker ==
    /\ text = ""
    /\ dialect = ""
    /\ declTable = NoTable
    /\ pc = "worker"
    /\ heidel = [raised |-> FALSE, timexs |-> <<>>]
    /\ morph = <<>>
    /\ cands = <<>>
    /\ spans = <<>>
    /\ out = ""
    /\ err = ""
    /\ NoWorker
    /\ NoTagger
    /\ NoMerge

\* process(text, timeout) up to the while loop: a fresh marker, the text
\* and the marker written to stdin, output_lines = [], start_time taken.
\* Calls are made one at a time: the call before has returned or raised.
Process ==
    /\ call # "reading"
    /\ calls < MaxCalls
    /\ calls' = calls + 1
    /\ stdin' = Append(stdin, calls + 1)
    /\ output_lines' = {}
    /\ elapsed' = 0
    /\ call' = "reading"
    /\ UNCHANGED <<jvm, _stdout_queue>>
    /\ UNCHANGED pipeline
    /\ UNCHANGED Num2Word
    /\ UNCHANGED JPype

\* The JVM reads the next request from its stdin
JvmReads ==
    /\ jvm = 0
    /\ stdin # <<>>
    /\ jvm' = Head(stdin)
    /\ stdin' = Tail(stdin)
    /\ UNCHANGED <<_stdout_queue, calls, call, output_lines, elapsed>>
    /\ UNCHANGED pipeline
    /\ UNCHANGED Num2Word
    /\ UNCHANGED JPype

\* The JVM prints a line for the request it works on and _stdout_reader
\* puts it into the queue
JvmPrintsLine ==
    /\ jvm # 0
    /\ Len(_stdout_queue) < MaxQueue
    /\ _stdout_queue' = Append(_stdout_queue, OutputLine(jvm))
    /\ UNCHANGED <<stdin, jvm, calls, call, output_lines, elapsed>>
    /\ UNCHANGED pipeline
    /\ UNCHANGED Num2Word
    /\ UNCHANGED JPype

\* The JVM prints the line with the marker of the request, which ends the
\* request, and _stdout_reader puts it into the queue
JvmPrintsMarker ==
    /\ jvm # 0
    /\ Len(_stdout_queue) < MaxQueue
    /\ _stdout_queue' = Append(_stdout_queue, MarkerLine(jvm))
    /\ jvm' = 0
    /\ UNCHANGED <<stdin, calls, call, output_lines, elapsed>>
    /\ UNCHANGED pipeline
    /\ UNCHANGED Num2Word
    /\ UNCHANGED JPype

\* One turn of the while loop in which self._stdout_queue.get(timeout=0.1)
\* returns a line: break when the marker of this call is in it, else
\* output_lines.append(line)
GetLine ==
    /\ call = "reading"
    /\ _stdout_queue # <<>>
    /\ _stdout_queue' = Tail(_stdout_queue)
    /\ IF Head(_stdout_queue) = MarkerLine(calls)
       THEN call' = "returned" /\ UNCHANGED output_lines
       ELSE call' = call /\ output_lines' = output_lines \cup {Head(_stdout_queue)}
    /\ UNCHANGED <<stdin, jvm, calls, elapsed>>
    /\ UNCHANGED pipeline
    /\ UNCHANGED Num2Word
    /\ UNCHANGED JPype

\* One turn of the while loop in which the queue stays empty for 0.1 s:
\* queue.Empty, and TimeoutError when the time since start_time is over
\* the timeout, else continue
GetEmpty ==
    /\ call = "reading"
    /\ _stdout_queue = <<>>
    /\ elapsed' = Min(elapsed + 1, Timeout + 1)
    /\ call' = IF elapsed' > Timeout THEN "TimeoutError" ELSE call
    /\ UNCHANGED <<stdin, jvm, _stdout_queue, calls, output_lines>>
    /\ UNCHANGED pipeline
    /\ UNCHANGED Num2Word
    /\ UNCHANGED JPype

\* 0.1 s pass while the call is busy with the lines it gets
TimePasses ==
    /\ call = "reading"
    /\ _stdout_queue # <<>>
    /\ elapsed <= Timeout
    /\ elapsed' = elapsed + 1
    /\ UNCHANGED <<stdin, jvm, _stdout_queue, calls, call, output_lines>>
    /\ UNCHANGED pipeline
    /\ UNCHANGED Num2Word
    /\ UNCHANGED JPype

NextWorker ==
    \/ Process
    \/ JvmReads
    \/ JvmPrintsLine
    \/ JvmPrintsMarker
    \/ GetLine
    \/ GetEmpty
    \/ TimePasses

SpecWorker == InitWorker /\ [][NextWorker]_vars

\* The thread that runs process() is scheduled: a turn of the while loop
\* that can be taken is taken.  Nothing is assumed of the JVM.
SpecWorkerLive ==
    SpecWorker /\ WF_vars(GetLine) /\ WF_vars(GetEmpty) /\ WF_vars(TimePasses)

-----------------------------------------------------------------------------
(* heideltime() of py_heideltime.py: the JVM and the tagger instance kept  *)
(* in the globals of the module                                            *)

\* LANGUAGES and DOC_TYPES of py_heideltime.meta, as far as lang_map and
\* doc_type_map name them
LANGUAGES == {"english", "german", "french", "italian"}
DOC_TYPES == {"news", "narrative", "colloquial", "scientific"}

\* The arguments of the calls: valid names, a name in capitals, an unknown one
LanguageArgs == LANGUAGES \cup {"German", "klingon"}
DocumentTypeArgs == {"news", "narrative", "colloquial", "bogus"}

\* lang_map.get(language.lower(), Language.ENGLISH)
lang_enum(language) ==
    IF StrLower(language) \in LANGUAGES THEN StrLower(language) ELSE "english"

\* doc_type_map.get(document_type.lower(), DocumentType.NEWS)
doc_enum(document_type) ==
    IF StrLower(document_type) \in DOC_TYPES THEN StrLower(document_type) ELSE "news"

\* _validate_inputs raises ValueError
InvalidInputs(language, document_type) ==
    StrLower(language) \notin LANGUAGES \/ StrLower(document_type) \notin DOC_TYPES

InitTagger ==
    /\ text = ""
    /\ dialect = ""
    /\ declTable = NoTable
    /\ pc = "tagger"
    /\ heidel = [raised |-> FALSE, timexs |-> <<>>]
    /\ morph = <<>>
    /\ cands = <<>>
    /\ spans = <<>>
    /\ out = ""
    /\ err = ""
    /\ NoWorker
    /\ NoMerge
    /\ NoTagger

\* heideltime(text, language, document_type) with arguments
\* _validate_inputs rejects
HeideltimeInvalid ==
    /\ pc = "tagger"
    /\ \E language \in LanguageArgs, document_type \in DocumentTypeArgs :
          /\ InvalidInputs(language, document_type)
          /\ ht_call' = [language |-> language, document_type |-> document_type,
                         instance |-> <<>>, outcome |-> "ValueError"]
    /\ UNCHANGED <<_jvm_started, isJVMStarted, startJVM_calls, _heideltime_instance>>
    /\ UNCHANGED pipeline
    /\ UNCHANGED PersistentHeidelTime
    /\ UNCHANGED <<pair, merged, ordinal_arg, ordinal_res>>

\* heideltime(text, language, document_type): _start_jvm,
\* _get_heideltime_instance, ht.process(text, java_date)
Heideltime ==
    /\ pc = "tagger"
    /\ \E language \in LanguageArgs, document_type \in DocumentTypeArgs :
          /\ ~InvalidInputs(language, document_type)
          /\ _jvm_started' = TRUE
          /\ isJVMStarted' = TRUE
          /\ startJVM_calls' = IF ~_jvm_started /\ ~isJVMStarted
                                THEN startJVM_calls + 1 ELSE startJVM_calls
          /\ _heideltime_instance' =
                IF _heideltime_instance = <<>>
                THEN <<lang_enum(language), doc_enum(document_type)>>
                ELSE _heideltime_instance
          /\ ht_call' = [language |-> language, document_type |-> document_type,
                         instance |-> _heideltime_instance', outcome |-> "processed"]
    /\ UNCHANGED pipeline
    /\ UNCHANGED PersistentHeidelTime
    /\ UNCHANGED <<pair, merged, ordinal_arg, ordinal_res>>

NextTagger == HeideltimeInvalid \/ Heideltime

SpecTagger == InitTagger /\ [][NextTagger]_vars

-----------------------------------------------------------------------------
(* The cardinal merge of Num2Word_CH_SG and Num2Word_CH_BS.  A fragment is *)
(* a pair <<word, number>>.                                                *)

\* self.low_numwords: the words of 20 down to 0
low_numwords(d) ==
    IF d = "ch_sg"
    THEN << "zwanzg", "nünzäh", "achzäh", "siebzäh", "sechzäh", "füfzäh",
            "vierzäh", "drizäh", "zwölf", "elf", "zäh", "nün", "acht",
            "siebe", "sechs", "füf", "vio", "drü", "zwei", "eis", "null" >>
    ELSE << "zwanzig", "nünzäh", "achzäh", "siebzäh", "sechzäh", "füfzäh",
            "vierzäh", "drizäh", "zwölf", "elf", "zäh", "nün", "acht",
            "siebe", "sechs", "fünf", "vier", "drei", "zwei", "eis", "null" >>

\* self.mid_numwords
mid_numwords(d) ==
    IF d = "ch_sg"
    THEN << <<1000, "tuusig">>, <<100, "hundert">>, <<90, "nünzg">>,
            <<80, "achzg">>, <<70, "siebezg">>, <<60, "sechzg">>,
            <<50, "füfzg">>, <<40, "vierzg">>, <<30, "driisg">> >>
    ELSE << <<1000, "tusig">>, <<100, "hundärd">>, <<90, "nünzig">>,
            <<80, "achzig">>, <<70, "sibzig">>, <<60, "sächzig">>,
            <<50, "füfzig">>, <<40, "vierzig">>, <<30, "drissig">> >>

GIGA_SUFFIX == "illiardä"
MEGA_SUFFIX == "illion"

\* The two lowest words of self.high_numwords with their suffixes: the
\* stem "M" of lows gives 10^6 and 10^9
high_numwords == << <<10^9, "M" \o GIGA_SUFFIX>>, <<10^6, "M" \o MEGA_SUFFIX>> >>

\* The fragments the fold hands to merge: the entries of self.cards
Fragments(d) ==
    {<<low_numwords(d)[i], 21 - i>> : i \in 1..21}
    \cup {<<mid_numwords(d)[i][2], mid_numwords(d)[i][1]>> : i \in 1..9}
    \cup {<<high_numwords[i][2], high_numwords[i][1]>> : i \in 1..2}

\* A variant of merge that returns the next fragment alone after any
\* leading fragment of value 1
mergeDropsOne(curr, next) ==
    IF curr[2] = 1 THEN next
    ELSE IF next[2] > curr[2] THEN <<curr[1] \o next[1], curr[2] * next[2]>>
    ELSE <<curr[1] \o next[1], curr[2] + next[2]>>

\* A variant of merge that joins the two words in the order of the
\* fragments, the tens before the unit
mergeTensFirst(curr, next) ==
    IF next[2] > curr[2] THEN <<curr[1] \o next[1], curr[2] * next[2]>>
    ELSE <<curr[1] \o next[1], curr[2] + next[2]>>

\* merge(self, curr, next)
merge(curr, next) ==
    LET ctext == curr[1]
        cnum == curr[2]
        ntext == next[1]
        nnum == next[2]
        ctext1 == IF cnum = 1 THEN "ei" ELSE ctext
    IN  IF cnum = 1 /\ (nnum = 100 \/ nnum = 1000) THEN <<"ei" \o ntext, nnum>>
        ELSE IF cnum = 1 /\ nnum < 10^6 THEN next
        ELSE IF nnum > cnum
        THEN LET ntext1 == IF nnum >= 10^6 /\ cnum > 1 /\ EndsWith(ntext, "e")
                           THEN ntext \o "n" ELSE ntext
                 ctext2 == IF nnum >= 10^6 THEN ctext1 \o " " ELSE ctext1
             IN  <<ctext2 \o ntext1, cnum * nnum>>
        ELSE IF nnum < 10 /\ 10 < cnum /\ cnum < 100
        THEN LET ntext1 == IF nnum = 1 THEN "ein" ELSE ntext
             IN  <<(ntext1 \o "ä") \o ctext1, cnum + nnum>>
        ELSE IF cnum >= 10^6 THEN <<(ctext1 \o " ") \o ntext, cnum + nnum>>
        ELSE <<ctext1 \o ntext, cnum + nnum>>

\* The numbers of the model have 32 bits; those of the source have no limit
MaxValue == 2 * 10^9

\* A dialect class and two of its fragments whose product is a number of
\* the model
InitMerge ==
    /\ text = ""
    /\ dialect \in Dialects
    /\ declTable = NoTable
    /\ pc = "merge"
    /\ heidel = [raised |-> FALSE, timexs |-> <<>>]
    /\ morph = <<>>
    /\ cands = <<>>
    /\ spans = <<>>
    /\ out = ""
    /\ err = ""
    /\ NoWorker
    /\ NoTagger
    /\ \E curr \in Fragments(dialect), next \in Fragments(dialect) :
          /\ curr[2] > 0 => next[2] <= MaxValue \div curr[2]
          /\ pair = <<curr, next>>
    /\ merged = <<>>
    /\ ordinal_arg = <<>>
    /\ ordinal_res = ""

\* One call merge(curr, next)
Merge ==
    /\ pc = "merge"
    /\ merged = <<>>
    /\ merged' = merge(pair[1], pair[2])
    /\ pc' = "merged"
    /\ UNCHANGED <<text, dialect, declTable, heidel, morph, cands, spans, out, err>>
    /\ UNCHANGED PersistentHeidelTime
    /\ UNCHANGED <<pair, ordinal_arg, ordinal_res>>
    /\ UNCHANGED JPype

SpecMerge == InitMerge /\ [][Merge]_vars

-----------------------------------------------------------------------------
(* to_ordinal of Num2Word_CH_SG and Num2Word_CH_BS                         *)

\* The tens 20, 30 .. 90
Tens == {10 * k : k \in 2..9}

\* self.cards[n]
CardWord(d, n) == (CHOOSE f \in Fragments(d) : f[2] = n)[1]

\* The fragment of the number 1, which splitnum puts before a fragment
\* that is taken once
One(d) == <<CardWord(d, 1), 1>>

\* splitnum and clean for a number that is in self.cards
FoldCard(d, n) == merge(One(d), <<CardWord(d, n), n>>)

\* The magnitudes of self.cards
Magnitudes == {100, 1000, 10^6, 10^9}

\* The numbers to_cardinal is applied to: those of self.cards, the tens
\* with a unit, and 2..9 hundreds, thousands, millions
CardinalValues ==
    (0..99) \cup Magnitudes \cup {k * m : k \in 2..9, m \in {100, 1000, 10^6}}

\* to_cardinal(value): the fragments of splitnum folded by merge
to_cardinal(d, value) ==
    IF value <= 20 \/ value \in Tens \cup Magnitudes THEN FoldCard(d, value)[1]
    ELSE IF value < 100
    THEN merge(FoldCard(d, value - (value % 10)), FoldCard(d, value % 10))[1]
    ELSE LET m == CHOOSE x \in Magnitudes :
                      value % x = 0 /\ value \div x \in 2..9
         IN  merge(FoldCard(d, value \div m), <<CardWord(d, m), m>>)[1]

\* self.ords in the order of the dict
ords(d) ==
    << <<"eis", "ers">>, <<"drei", "drit">>, <<"acht", "ach">>,
       <<"sieben", IF d = "ch_sg" THEN "sib" ELSE "sieb">>,
       <<"ig", "igs">>, <<"ert", "erts">>, <<"end", "ends">>,
       <<"ion", "ions">>, <<"nen", "ns">>, <<"rde", "rds">>,
       <<"rden", "rds">>, <<"zäh", "zähn">>, <<"ärd", "ärds">>,
       <<"rdä", "rdäs">> >>

RECURSIVE OrdinalStem(_, _, _)
\* The loop over self.ords: the first key outword ends with is replaced
OrdinalStem(d, outword, i) ==
    IF i > Len(ords(d)) THEN outword
    ELSE IF EndsWith(outword, ords(d)[i][1])
    THEN Slice(outword, 0, Len(outword) - Len(ords(d)[i][1])) \o ords(d)[i][2]
    ELSE OrdinalStem(d, outword, i + 1)

\* str.replace("ei", "", 1)
RECURSIVE RemoveFirstEi(_, _)
RemoveFirstEi(s, i) ==
    IF i + 2 > Len(s) THEN s
    ELSE IF Slice(s, i, i + 2) = "ei" THEN Slice(s, 0, i) \o SliceFrom(s, i + 2)
    ELSE RemoveFirstEi(s, i + 1)

\* [a-z]+(illion|illiard)sti$ matched from offset i to the end of s
MagnitudeOrdinalAt(s, i) ==
    /\ \A k \in i..(Len(s) - 1) : Ch(s, k) \in Lower
    /\ \/ EndsWith(s, "illionsti") /\ i < Len(s) - 9
       \/ EndsWith(s, "illiardsti") /\ i < Len(s) - 10

\* re.sub(prefix + r'([a-z]+(illion|illiard)sti)$', group 1, s): the match
\* is the leftmost one
RECURSIVE StripBefore(_, _, _)
StripBefore(s, prefix, i) ==
    IF i + Len(prefix) > Len(s) THEN s
    ELSE IF StartsAt(s, i, prefix) /\ MagnitudeOrdinalAt(s, i + Len(prefix))
    THEN Slice(s, 0, i) \o SliceFrom(s, i + Len(prefix))
    ELSE StripBefore(s, prefix, i + 1)

\* The exception of to_ordinal for the thousandth and the hundredth
Exception(r) ==
    IF r = "eitusigssti" \/ r = "eihundärdsti" THEN RemoveFirstEi(r, 0) ELSE r

\* to_ordinal(value) of ch_bs, to_ordinal(value, declension) of ch_sg with
\* the ending the sheet has for the declension
to_ordinal_word(d, value, ending) ==
    LET outword == OrdinalStem(d, StrLower(to_cardinal(d, value)), 1)
        res0 == IF d = "ch_sg" THEN (outword \o "t") \o ending ELSE outword \o "ti"
    IN  StripBefore(StripBefore(Exception(res0), "ei ", 0), " ", 0)

\* The endings of the column St_Gallen_short of the declension sheet
Endings(d) == IF d = "ch_sg" THEN {"i", "e", "ä"} ELSE {""}

InitOrdinal ==
    /\ text = ""
    /\ dialect \in Dialects
    /\ declTable = NoTable
    /\ pc = "ordinal"
    /\ heidel = [raised |-> FALSE, timexs |-> <<>>]
    /\ morph = <<>>
    /\ cands = <<>>
    /\ spans = <<>>
    /\ out = ""
    /\ err = ""
    /\ NoWorker
    /\ NoTagger
    /\ pair = <<>>
    /\ merged = <<>>
    /\ \E value \in CardinalValues \ {0}, ending \in Endings(dialect) :
          ordinal_arg = <<value, ending>>
    /\ ordinal_res = ""

\* One call to_ordinal
ToOrdinal ==
    /\ pc = "ordinal"
    /\ ordinal_res' = to_ordinal_word(dialect, ordinal_arg[1], ordinal_arg[2])
    /\ pc' = "ordinal_done"
    /\ UNCHANGED <<text, dialect, declTable, heidel, morph, cands, spans, out, err>>
    /\ UNCHANGED PersistentHeidelTime
    /\ UNCHANGED <<pair, merged, ordinal_arg>>
    /\ UNCHANGED JPype

SpecOrdinal == InitOrdinal /\ [][ToOrdinal]_vars

-----------------------------------------------------------------------------
(* Properties                                                              *)

\* Two spans share a character position
Overlap(a, b) == a.start < b.end /\ b.start < a.end

\* Span a lies inside span b
Inside(a, b) == b.start <= a.start /\ a.end <= b.end

\* Candidate c is in the result of the resolver
Retained(c) == \E k \in 1..Len(spans) : spans[k] = c

\* C1: whatever the candidate list, the spans either resolver returns are
\* pairwise disjoint: no two of them share a character position and none
\* lies inside another.
C1_Disjointness ==
    pc \in {"resolved_priority", "resolved_position"} =>
        \A i, j \in 1..Len(spans) :
            i # j => /\ ~Overlap(spans[i], spans[j])
                     /\ ~Inside(spans[i], spans[j])

\* A resolver was given three candidates, two of them overlapping, and
\* returned two spans.
C1_Witness ==
    /\ pc = "resolved_position"
    /\ Len(cands) = 3
    /\ Len(spans) = 2
    /\ \E i, j \in 1..Len(cands) :
          /\ i # j
          /\ Overlap(cands[i], cands[j])
          /\ ~Inside(cands[i], cands[j])
          /\ ~Inside(cands[j], cands[i])

\* C2 as stated: of two overlapping candidates of different kinds, the one
\* with the lower priority value is in the result of the priority resolver.
C2_Dominance ==
    pc = "resolved_priority" =>
        \A i, j \in 1..Len(cands) :
            (/\ Overlap(cands[i], cands[j])
             /\ cands[i].kind # cands[j].kind
             /\ KIND_PRIORITY(cands[i].kind) < KIND_PRIORITY(cands[j].kind))
            => Retained(cands[i])

\* C2, amended: of two overlapping candidates of different kinds, the one
\* with the lower priority value is in the result and the other is not,
\* unless the one with the lower value overlaps a span of the result whose
\* priority value is equal or lower still.
C2_DominanceUnlessDisplaced ==
    pc = "resolved_priority" =>
        \A i, j \in 1..Len(cands) :
            (/\ Overlap(cands[i], cands[j])
             /\ cands[i].kind # cands[j].kind
             /\ KIND_PRIORITY(cands[i].kind) < KIND_PRIORITY(cands[j].kind))
            => \/ Retained(cands[i]) /\ ~Retained(cands[j])
               \/ /\ ~Retained(cands[i])
                  /\ \E k \in 1..Len(spans) :
                        /\ Overlap(spans[k], cands[i])
                        /\ KIND_PRIORITY(spans[k].kind) <= KIND_PRIORITY(cands[i].kind)

\* The priority resolver kept a candidate over a longer one of higher
\* priority value that starts before it.
C2_Witness ==
    /\ pc = "resolved_priority"
    /\ \E i, j \in 1..Len(cands) :
          /\ Overlap(cands[i], cands[j])
          /\ KIND_PRIORITY(cands[i].kind) < KIND_PRIORITY(cands[j].kind)
          /\ cands[j].start < cands[i].start
          /\ cands[j].end - cands[j].start > cands[i].end - cands[i].start
          /\ Retained(cands[i])
          /\ ~Retained(cands[j])

\* The phrase convert_numbers generates for an accepted span
PhraseOf(span) == Generate(dialect, declTable, span).number

RECURSIVE InSourceOrder(_, _, _)
\* The text s from offset from on, each span of the set rest replaced by
\* its phrase, the leftmost first, and everything between the spans left
\* as it is
InSourceOrder(s, rest, from) ==
    IF rest = {} THEN SliceFrom(s, from)
    ELSE LET first == CHOOSE x \in rest : \A y \in rest : x.start <= y.start
         IN  Slice(s, from, first.start) \o PhraseOf(first)
             \o InSourceOrder(s, rest \ {first}, first.end)

\* C3: when convert_numbers returns, its output is the source text with each
\* accepted span replaced by that span's phrase, in source order, and every
\* character outside the accepted spans as it was; with no accepted span
\* the output is the input.
C3_FrameEffect ==
    pc = "converted" =>
        /\ out = InSourceOrder(text, {spans[k] : k \in 1..Len(spans)}, 0)
        /\ spans = <<>> => out = text

\* convert_numbers returned after replacing two spans, the left one by a
\* phrase of another length.
C3_Witness ==
    /\ pc = "converted"
    /\ Len(spans) = 2
    /\ \E i, j \in 1..2 :
          /\ spans[i].start < spans[j].start
          /\ Len(PhraseOf(spans[i])) # spans[i].end - spans[i].start
    /\ out # text

\* The temporal tagger call failed in this call: heideltime() raised, or the
\* adapter raised on one of the expressions it returned
TaggerFailed == heidel.raised \/ TemporalLoopRaised(text, heidel.timexs)

\* C4 as stated: when the temporal tagger call fails, detect_number_spans
\* does not raise and returns the resolved spans of the pattern detectors.
C4_TaggerFailureNonFatal ==
    (pc \in {"detected", "detect_raised"} /\ TaggerFailed) =>
        /\ pc = "detected"
        /\ spans = ResolveByPriority(PatternSpans(text, morph))

\* C5 as stated: when the adapter fails while it handles the tagger's
\* response, no DATE or TIME span of that response reaches the resolver.
C5_EmptyOnAdapterFailure ==
    (pc = "detected" /\ ~heidel.raised /\ TemporalLoopRaised(text, heidel.timexs)) =>
        \A k \in 1..Len(cands) : cands[k].kind \notin {"DATE", "TIME"}

\* The raw ORDINAL match the k-th tagger outcome of morph belongs to
OrdinalMatch(k) == PatternMatches(text).ORDINAL[k]

\* There is an ORDINAL span for the k-th raw match in the list
OrdinalIn(list, k) ==
    \E i \in 1..Len(list) :
        /\ list[i].kind = "ORDINAL"
        /\ list[i].start = OrdinalMatch(k).start
        /\ list[i].end = OrdinalMatch(k).end

\* C6 as stated: when the morphological tagger fails for a raw ORDINAL
\* candidate, the failure does not leave detect_number_spans or
\* convert_numbers and the candidate is not an ORDINAL.
C6_MorphFailureRejects ==
    (pc # "ready" /\ MorphRaises(morph)) =>
        /\ ~(pc \in {"detect_raised", "convert_raised"} /\ err = "Exception")
        /\ \A k \in 1..Len(morph) : morph[k].raises => ~OrdinalIn(spans, k)

\* The token before the k-th raw ORDINAL match is a determiner or adposition
Gate(k) == morph[k].token /\ morph[k].prev \in {"DET", "ADP"}

\* The digits of the k-th raw ORDINAL match are covered by a NUMBER span of
\* the result that ends before the period
NumberCovers(k) ==
    \E i \in 1..Len(spans) :
        /\ spans[i].kind = "NUMBER"
        /\ spans[i].start <= OrdinalMatch(k).start
        /\ spans[i].end = OrdinalMatch(k).end - 1

RECURSIVE OutOffset(_, _)
\* Where the character at text offset p is in the output, p outside every
\* span of list
OutOffset(list, p) ==
    IF list = <<>> THEN p
    ELSE OutOffset(Tail(list), p)
         + (IF Head(list).end <= p
            THEN Len(PhraseOf(Head(list))) - (Head(list).end - Head(list).start)
            ELSE 0)

\* The period of the k-th raw ORDINAL match lies in no span of the result
\* and, when convert_numbers returned, is in the output
PeriodKept(k) ==
    LET p == OrdinalMatch(k).end - 1
    IN  /\ \A i \in 1..Len(spans) : ~(spans[i].start <= p /\ p < spans[i].end)
        /\ pc = "converted" => Ch(out, OutOffset(spans, p)) = "."

\* A span of the result of higher priority than NUMBER overlaps the plain
\* number the digits of the k-th raw ORDINAL match belong to, or its period
Displaced(k) ==
    \E i \in 1..Len(spans), n \in 1..Len(cands) :
        /\ cands[n].kind = "NUMBER"
        /\ cands[n].end = OrdinalMatch(k).end - 1
        /\ KIND_PRIORITY(spans[i].kind) < KIND_PRIORITY("NUMBER")
        /\ spans[i].start < OrdinalMatch(k).end
        /\ cands[n].start < spans[i].end

\* C7 as stated: a digit+period candidate is an ORDINAL span of the result
\* only if the token before it is a determiner or adposition; otherwise
\* there is no ORDINAL span for it, a NUMBER span that leaves out the period
\* covers its digits, and the period stays in the output.
C7_OrdinalGating ==
    pc \in {"detected", "converted"} =>
        \A k \in 1..Len(morph) :
            /\ OrdinalIn(spans, k) => Gate(k)
            /\ ~Gate(k) => /\ ~OrdinalIn(spans, k)
                           /\ NumberCovers(k)
                           /\ PeriodKept(k)

\* C7, amended: a digit+period candidate is an ORDINAL span of the result
\* only if the token before it is a determiner or adposition; otherwise
\* there is no ORDINAL span for it and, unless a span of higher priority
\* than NUMBER in the result overlaps its number or its period, a NUMBER
\* span that leaves out the period covers its digits and the period stays
\* in the output.
C7_OrdinalGatingUnlessDisplaced ==
    pc \in {"detected", "converted"} =>
        \A k \in 1..Len(morph) :
            /\ OrdinalIn(spans, k) => Gate(k)
            /\ ~Gate(k) => /\ ~OrdinalIn(spans, k)
                           /\ \/ Displaced(k)
                              \/ NumberCovers(k) /\ PeriodKept(k)

\* convert_numbers returned for a text whose digit+period candidate follows
\* a verb: a NUMBER span covers the digits and the period is in the output.
C7_Witness ==
    /\ pc = "converted"
    /\ \E k \in 1..Len(morph) :
          /\ morph[k].token
          /\ morph[k].prev = "VERB"
          /\ ~OrdinalIn(spans, k)
          /\ NumberCovers(k)
          /\ PeriodKept(k)
          /\ ~Displaced(k)

\* C8 as stated: a digit+period candidate whose preceding token is a
\* determiner or adposition is accepted as ORDINAL, with or without the
\* features of declension class, gender and case.
C8_AcceptedWithoutFeatures ==
    pc \in {"detected", "converted"} =>
        \A k \in 1..Len(morph) : Gate(k) => OrdinalIn(cands, k)

\* The declension table has no row for what the accepted span asks for
LookupMiss(span) ==
    /\ dialect = "ch_sg"
    /\ \/ /\ span.kind = "ORDINAL"
          /\ span.value.vt = "ordinal"
          /\ DeclensionKey(span.value) \notin declTable
       \/ /\ span.kind = "DATE"
          /\ span.value.DAY # None
          /\ DeclensionKey(DateDeclension) \notin declTable

\* C9 as stated: a declension-table lookup miss for one accepted span fails
\* that span only: convert_numbers still returns, with the other accepted
\* spans replaced by their phrases.
C9_LookupMissIsolated ==
    (/\ pc \in {"converted", "convert_raised"}
     /\ \E k \in 1..Len(spans) : LookupMiss(spans[k])) =>
        /\ pc = "converted"
        /\ \A k \in 1..Len(spans) :
              ~LookupMiss(spans[k]) =>
                  \E i \in 0..Len(out) :
                      StartsAt(out, i, PhraseOf(spans[k]))

\* The phrase the ZIP rule asks for: one cardinal when the last three
\* digits are 000, else cardinal(d1d2), zero, cardinal(d4) when d3 is 0,
\* else cardinal(d1d2) and cardinal(d3d4)
ZipRule(z) ==
    IF Slice(z, 1, 4) = "000" THEN Cardinal(z)
    ELSE IF Ch(z, 2) = "0"
    THEN Cardinal(Slice(z, 0, 2)) \o " " \o Cardinal("0") \o " " \o Cardinal(Ch(z, 3))
    ELSE Cardinal(Slice(z, 0, 2)) \o " " \o Cardinal(Slice(z, 2, 4))

\* C10 as stated: the phrase generated for a ZIP span of four digits, the
\* first one in 1..9, is the one the ZIP rule asks for.
C10_ZipRule ==
    (pc = "generated" /\ spans[1].kind = "ZIP") => out = ZipRule(text)

RECURSIVE DigitsOf(_)
\* The digits of s, in their order
DigitsOf(s) ==
    IF s = "" THEN ""
    ELSE (IF IsDigit(Ch(s, 0)) THEN Ch(s, 0) ELSE "") \o DigitsOf(SliceFrom(s, 1))

RECURSIVE SpacedDigitWords(_)
\* The word of every digit of a digit string, joined by single spaces
SpacedDigitWords(ds) ==
    IF Len(ds) <= 1 THEN (IF ds = "" THEN "" ELSE Cardinal(ds))
    ELSE Cardinal(Ch(ds, 0)) \o " " \o SpacedDigitWords(SliceFrom(ds, 1))

\* The phrase the PHONE rule asks for: the word for plus when the span
\* starts with "+", then the word of every digit, single spaces between
\* the items and none before the first or after the last
PhoneRule(p) ==
    IF Ch(p, 0) = "+" THEN "plus " \o SpacedDigitWords(DigitsOf(p))
    ELSE SpacedDigitWords(DigitsOf(p))

\* C11 as stated: the phrase generated for a PHONE span, with or without a
\* leading "+" and with any separator of the PHONE pattern, is the one the
\* PHONE rule asks for.
C11_PhoneRule ==
    (pc = "generated" /\ spans[1].kind = "PHONE") => out = PhoneRule(text)

RECURSIVE NumberRule(_)
\* The phrase the NUMBER rule asks for: a zero word for each leading zero,
\* then the cardinal of the remaining digits, single spaces between them
NumberRule(ds) ==
    IF Ch(ds, 0) # "0" THEN Cardinal(ds)
    ELSE IF Len(ds) = 1 THEN Cardinal("0")
    ELSE Cardinal("0") \o " " \o NumberRule(SliceFrom(ds, 1))

\* C12: for every digit string the phrase generated for a NUMBER span is a
\* zero word per leading zero followed by the cardinal of the remaining
\* digits, joined by single spaces; a string of zeros gives one zero word
\* per digit and a string without leading zeros exactly its cardinal.
C12_NumberRule ==
    (pc = "generated" /\ spans[1].kind = "NUMBER") => out = NumberRule(text)

\* NUMBER spans with two leading zeros before a digit, of zeros only, and
\* without a leading zero were generated.
C12_Witness ==
    /\ pc = "generated"
    /\ spans[1].kind = "NUMBER"
    /\ text = "007"
    /\ out = Cardinal("0") \o " " \o Cardinal("0") \o " " \o Cardinal("7")

\* The time-of-day component of a normalized value: what follows the "T"
TimeOfDay(value) == SliceFrom(value, IndexOf(value, "T", 0) + 1)

\* The only span is a TIME whose value the tagger gave as HH:MM, with the
\* hour in 0..23 and the minute in 0..59
IsClockTime ==
    /\ spans[1].kind = "TIME"
    /\ Len(TimeOfDay(heidel.timexs[1].value)) = 5
    /\ spans[1].value.HOUR \in 0..23
    /\ spans[1].value.MINUTE \in 0..59

\* C13 as stated: for every hour in 0..23 and minute in 0..59 the hour is
\* incremented by one exactly when the minute is 25 or at least 30, the
\* hour that is looked up lies in 1..12, and the TIME span gets its phrase.
C13_HourInTable ==
    (pc # "generate" /\ IsClockTime) =>
        LET v   == spans[1].value
            inc == IF v.MINUTE = 25 \/ v.MINUTE >= 30 THEN 1 ELSE 0
        IN  /\ TimeHours(v) \in {v.HOUR + inc, v.HOUR + inc - 12}
            /\ TimeHours(v) \in 1..12
            /\ pc = "generated"

\* C14 as stated: the hour and the minute of a TIME span are the HH and MM
\* fields of the time-of-day component HH:MM or HH:MM:SS of the tagger's
\* value, and a second that is present and not zero is rendered after the
\* hour phrase.
C14_TimeOfDayFields ==
    spans[1].kind = "TIME" =>
        LET c == TimeOfDay(heidel.timexs[1].value)
        IN  /\ spans[1].value.HOUR = ToInt(Slice(c, 0, 2))
            /\ spans[1].value.MINUTE = ToInt(Slice(c, 3, 5))
            /\ (pc = "generated" /\ Len(c) = 8 /\ ToInt(Slice(c, 6, 8)) > 0) =>
                   EndsWith(out, " " \o Cardinal(Slice(c, 6, 8)) \o Word("lookup", "sek"))

\* Two phrases joined by one space, an empty one left out
JoinWords(a, b) == IF a = "" THEN b ELSE IF b = "" THEN a ELSE a \o " " \o b

\* The phrase the DATE rule asks for: the day as an ordinal, the name of
\* the month, the year (two cardinals of two digits each for the years
\* 1000..1999, else one cardinal), the absent parts left out
DateRule(d, table, value) ==
    LET day   == IF value.DAY = None THEN ""
                 ELSE to_ordinal(d, table, ToStr(value.DAY), DateDeclension).number
        month == IF value.MONTH = None THEN ""
                 ELSE Word("month_dates", ToStr(value.MONTH))
        year  == IF value.YEAR = None THEN ""
                 ELSE IF value.YEAR \in 1000..1999
                 THEN Cardinal(ToStr(value.YEAR \div 100)) \o " "
                      \o Cardinal(ToStr(value.YEAR % 100))
                 ELSE Cardinal(ToStr(value.YEAR))
    IN  JoinWords(day, JoinWords(month, year))

\* C15: the phrase of a DATE span is its present parts in the order day,
\* month, year joined by single spaces; a year of four digits up to 1999 is
\* two cardinals of two digits each, every other year one cardinal.
C15_DateRule ==
    (pc = "generated" /\ spans[1].kind = "DATE") =>
        out = DateRule(dialect, declTable, spans[1].value)

\* A DATE with day, month and a year before 2000 was generated as four
\* terms, and a DATE with only month and year as two.
C15_Witness ==
    /\ pc = "generated"
    /\ spans[1].kind = "DATE"
    /\ spans[1].value = [vt |-> "date", YEAR |-> 1999, MONTH |-> 6, DAY |-> 15]
    /\ dialect = "ch_bs"
    /\ out = "<ordinal EinsFuenf> <month_dates Sechs> <cardinal EinsNeun> <cardinal NeunNeun>"

\* C16 as stated: every candidate span of detection, from the pattern
\* detectors and from the temporal adapter, lies in the text with
\* 0 <= start < end <= len(text) and carries text[start:end] as its text.
C16_CandidateOffsets ==
    \A k \in 1..Len(cands) :
        /\ 0 <= cands[k].start
        /\ cands[k].start < cands[k].end
        /\ cands[k].end <= Len(text)
        /\ cands[k].text = Slice(text, cands[k].start, cands[k].end)

\* s holds no digit
NoDigits(s) == \A i \in 0..(Len(s) - 1) : Ch(s, i) \notin Digits

C18_OwnLinesOnly ==
    call = "returned" => \A line \in output_lines : line = OutputLine(calls)

\* C19 as stated: every process() call ends, by returning at its marker or
\* by raising TimeoutError, whatever the worker prints.
C19_Terminates == (call = "reading") ~> (call \in {"returned", "TimeoutError"})

\* The fragments of a finished merge call
MergedCurr == pair[1]
MergedNext == pair[2]

\* C20 as stated: a leading fragment of value 1 before a magnitude of
\* 10^6 or more is dropped, the merged text is the bare magnitude word.
C20_LeadingOneDropped ==
    (pc = "merged" /\ MergedCurr[2] = 1 /\ MergedNext[2] >= 10^6)
        => merged[1] = MergedNext[1]

\* C20 amended: a leading fragment of value 1 before a magnitude of 10^6
\* or more is rendered as "ei" and a space before the magnitude word; before
\* 100 or 1000 it is the prefix "ei" of the word; before any other fragment
\* below 10^6 it is dropped and the merge gives that fragment alone.
C20_LeadingOne ==
    (pc = "merged" /\ MergedCurr[2] = 1)
        => merged = IF MergedNext[2] >= 10^6
                    THEN <<"ei " \o MergedNext[1], MergedNext[2]>>
                    ELSE IF MergedNext[2] \in {100, 1000}
                    THEN <<"ei" \o MergedNext[1], MergedNext[2]>>
                    ELSE MergedNext

\* The million of ch_sg after a leading one
C20_Witness ==
    /\ pc = "merged"
    /\ dialect = "ch_sg"
    /\ pair = << <<"eis", 1>>, <<"Million", 10^6>> >>
    /\ merged = <<"ei Million", 10^6>>

\* C21 as stated: a magnitude word of 10^6 or more stands after the count
\* and a space, and after a count above one its form is another one than
\* after a count of one.
C21_MagnitudePlural ==
    (pc = "merged" /\ MergedCurr[2] > 1 /\ MergedNext[2] >= 10^6
        /\ MergedNext[2] > MergedCurr[2])
        => /\ StartsAt(merged[1], 0, MergedCurr[1] \o " ")
           /\ merged[1] # (MergedCurr[1] \o " ") \o MergedNext[1]

\* C22: a tens fragment of 20..90 followed by a unit fragment of 1..9 gives
\* the unit word ("ein" for 1), the linking particle and the tens word, with
\* the sum as value; a fragment of value 1 followed by hundred or thousand
\* gives the word with the prefix "ei" and the value of the magnitude.
C22_UnitBeforeTens ==
    /\ (pc = "merged" /\ MergedCurr[2] \in Tens /\ MergedNext[2] \in 1..9)
         => merged = << ((IF MergedNext[2] = 1 THEN "ein" ELSE MergedNext[1]) \o "ä")
                            \o MergedCurr[1],
                        MergedCurr[2] + MergedNext[2] >>
    /\ (pc = "merged" /\ MergedCurr[2] = 1 /\ MergedNext[2] \in {100, 1000})
         => merged = <<"ei" \o MergedNext[1], MergedNext[2]>>

\* The 21 of ch_bs
C22_Witness ==
    /\ pc = "merged"
    /\ dialect = "ch_bs"
    /\ pair = << <<"zwanzig", 20>>, <<"eis", 1>> >>
    /\ merged = <<"einäzwanzig", 21>>

\* C23 as stated: in both dialects the ordinals of 100 and of 1000 are
\* returned without the leading "ei" of their cardinals.
C23_ContractedForm ==
    (pc = "ordinal_done" /\ ordinal_arg[1] \in {100, 1000})
        => ~StartsAt(ordinal_res, 0, "ei")

\* C24 as stated: the JVM is started at most once, and the text of every
\* call is processed by an instance that was created with the language and
\* the document type of that call.
C24_InstanceOfCall ==
    /\ startJVM_calls <= 1
    /\ ht_call.outcome = "processed"
         => ht_call.instance = <<lang_enum(ht_call.language),
                                 doc_enum(ht_call.document_type)>>

\* The spans of the result at the offsets of the k-th raw ORDINAL match
AtOrdinalMatch(k) ==
    {i \in 1..Len(spans) : /\ spans[i].start = OrdinalMatch(k).start
                           /\ spans[i].end = OrdinalMatch(k).end}

\* A span of the result of higher priority than ORDINAL overlaps the k-th
\* raw ORDINAL match
OrdinalOverlapped(k) ==
    \E i \in 1..Len(spans) :
        /\ KIND_PRIORITY(spans[i].kind) < KIND_PRIORITY("ORDINAL")
        /\ spans[i].start < OrdinalMatch(k).end
        /\ OrdinalMatch(k).start < spans[i].end

\* C25: when the validator accepts a digit+period candidate and no span of
\* higher priority overlaps it, the result has exactly one span at its
\* offsets, an ORDINAL, and that span carries the declension value the
\* validator derived.
C25_OrdinalKeptOnce ==
    pc \in {"detected", "converted"} =>
        \A k \in 1..Len(morph) :
            (_is_ordinal_context(morph[k]).ok /\ ~OrdinalOverlapped(k)) =>
                /\ Cardinality(AtOrdinalMatch(k)) = 1
                /\ \A i \in AtOrdinalMatch(k) :
                      /\ spans[i].kind = "ORDINAL"
                      /\ spans[i].value = _is_ordinal_context(morph[k]).value

\* detect_number_spans returned for "Das ist der 1. Platz." with the
\* article before the number: one ORDINAL span at 12..14 with its declension
C25_Witness ==
    /\ pc = "detected"
    /\ text = "Das ist der 1. Platz."
    /\ Len(morph) = 1
    /\ _is_ordinal_context(morph[1]).ok
    /\ Len(cands) = 3
    /\ Len(spans) = 1
    /\ spans[1].kind = "ORDINAL"
    /\ spans[1].start = 12
    /\ spans[1].end = 14
    /\ spans[1].value.vt = "ordinal"

\* C26 as stated: every phrase convert_numbers puts in the place of an
\* accepted span is non-empty, also that of a DATE span without year, month
\* and day.
C26_ReplacementNonEmpty ==
    pc = "converted" => \A i \in 1..Len(spans) : PhraseOf(spans[i]) # ""

====
